---------------------------- MODULE Spec2Model ----------------------------
(***************************************************************************)
(* A model of the core path of the insane sanitizer: the parser            *)
(* (tokenizer and attribute lexer) and the whitelist filter it drives.     *)
(*                                                                         *)
(* A JavaScript string is a sequence of one-character strings, so that     *)
(* every scan of the source runs character by character here too.         *)
(* Indices are 0-based where an operator carries the name of a JavaScript  *)
(* String method (indexOf, substring, slice), as in the source.            *)
(***************************************************************************)
EXTENDS Integers, Sequences, FiniteSets, TLC

\* ------------------------------------------------------------------------
\* Bounds of the model
\* ------------------------------------------------------------------------

\* The longest input, counted in pieces of CorePieces and OddPieces.
MaxPieces == 4

\* At most this many pieces of an input are taken from OddPieces.
MaxOdd == 1

\* ------------------------------------------------------------------------
\* Characters and JavaScript String methods
\* ------------------------------------------------------------------------

UpperLetters == <<"A","B","C","D","E","F","G","H","I","J","K","L","M",
                  "N","O","P","Q","R","S","T","U","V","W","X","Y","Z">>

LowerLetters == <<"a","b","c","d","e","f","g","h","i","j","k","l","m",
                  "n","o","p","q","r","s","t","u","v","w","x","y","z">>

Digits == {"0","1","2","3","4","5","6","7","8","9"}

Range(f) == {f[i] : i \in DOMAIN f}

\* /\s/ restricted to the white space the inputs of the model are built from
Whitespace == {" ", "\t", "\n"}

\* /[\w:-]/
NameChars == Range(UpperLetters) \cup Range(LowerLetters) \cup Digits \cup {"_", ":", "-"}

Min(S) == CHOOSE x \in S : \A y \in S : x <= y

toLowerCase(s) ==
    [i \in 1..Len(s) |->
        IF s[i] \in Range(UpperLetters)
        THEN LowerLetters[CHOOSE k \in 1..26 : UpperLetters[k] = s[i]]
        ELSE s[i]]

\* utils.ts: every value the core passes is a string
lowercase(value) == toLowerCase(value)

\* s.substring(a, b) and s.slice(a, b) for 0 <= a, b; both cut at the ends
substring(s, a, b) ==
    LET lo == IF a < b THEN a ELSE b
        hi == IF a < b THEN b ELSE a
    IN  SubSeq(s, lo + 1, IF hi > Len(s) THEN Len(s) ELSE hi)

substringFrom(s, a) == SubSeq(s, a + 1, Len(s))

slice(s, a, b) == SubSeq(s, a + 1, b)

startsWith(s, p) == Len(s) >= Len(p) /\ SubSeq(s, 1, Len(p)) = p

endsWith(s, p) == Len(s) >= Len(p) /\ SubSeq(s, Len(s) - Len(p) + 1, Len(s)) = p

\* s.indexOf(p): the first 0-based position of p in s, -1 when there is none
indexOf(s, p) ==
    LET I == {i \in 0..(Len(s) - Len(p)) : SubSeq(s, i + 1, i + Len(p)) = p}
    IN  IF I = {} THEN -1 ELSE Min(I)

\* the cursor after `while (i < len && C.test(s.charAt(i))) i++`
ScanWhileIn(s, i, C) ==
    Min({j \in i..Len(s) : j = Len(s) \/ s[j + 1] \notin C})

\* the cursor after `while (i < len && !C.test(s.charAt(i))) i++`
ScanWhileNotIn(s, i, C) ==
    Min({j \in i..Len(s) : j = Len(s) \/ s[j + 1] \in C})

trim(s) ==
    LET a == ScanWhileIn(s, 0, Whitespace)
        B == {j \in a..Len(s) : j = a \/ s[j] \notin Whitespace}
        b == CHOOSE j \in B : \A k \in B : k <= j
    IN  SubSeq(s, a + 1, b)

RECURSIVE Join(_)
\* buffer.join("")
Join(pieces) == IF pieces = <<>> THEN <<>> ELSE Head(pieces) \o Join(Tail(pieces))

\* ------------------------------------------------------------------------
\* The entity codec (html-entities), for the entities the inputs use
\* ------------------------------------------------------------------------

\* the entities of the model, each written in full with its closing ';'
EntityNames == << <<"a","m","p">>, <<"l","t">>, <<"g","t">>, <<"q","u","o","t">>,
                  <<"a","p","o","s">>, <<"#","5","8">>, <<"#","1","0","6">> >>

EntityChars == <<"&", "<", ">", "\"", "'", ":", "j">>

RECURSIVE decode(_)
\* decode(value): every known `&name;` becomes its character, the rest stays
decode(s) ==
    IF s = <<>> THEN <<>>
    ELSE IF Head(s) # "&" THEN <<Head(s)>> \o decode(Tail(s))
    ELSE LET semi == indexOf(s, <<";">>)
             K == {k \in DOMAIN EntityNames :
                       semi >= 0 /\ substring(s, 1, semi) = EntityNames[k]}
         IN  IF K = {} THEN <<"&">> \o decode(Tail(s))
             ELSE <<EntityChars[CHOOSE k \in K : TRUE]>> \o decode(substringFrom(s, semi + 1))

RECURSIVE encode(_)
\* encode(value): the five special characters become named entities
encode(s) ==
    IF s = <<>> THEN <<>>
    ELSE LET c == Head(s)
             K == {k \in 1..5 : EntityChars[k] = c}
         IN  (IF K = {} THEN <<c>>
              ELSE <<"&">> \o EntityNames[CHOOSE k \in K : TRUE] \o <<";">>)
             \o encode(Tail(s))

\* ------------------------------------------------------------------------
\* Attribute lexer (parser: parseAttributes)
\* ------------------------------------------------------------------------

\* Record<string, string | undefined>: the entries in insertion order;
\* has = FALSE is the value undefined
Undefined == [has |-> FALSE, value |-> <<>>]

Str(v) == [has |-> TRUE, value |-> v]

\* attrs[name] = v: a new key is added last, an old key keeps its place
SetAttr(attrs, name, v) ==
    IF \E k \in DOMAIN attrs : attrs[k].name = name
    THEN [k \in DOMAIN attrs |->
            IF attrs[k].name = name
            THEN [name |-> name, has |-> v.has, value |-> v.value]
            ELSE attrs[k]]
    ELSE Append(attrs, [name |-> name, has |-> v.has, value |-> v.value])

\* faulty variant of AttrPass: a quoted value without its closing quote is
\* not stored
AttrPass_NeedsClosingQuote(s, i, attrs) ==
    LET len == Len(s)
        i1 == ScanWhileIn(s, i, Whitespace)
    IN  IF i1 >= len THEN [i |-> i1, attrs |-> attrs, brk |-> TRUE]
        ELSE
        LET i2 == ScanWhileIn(s, i1, NameChars)
        IN  IF i2 = i1 THEN [i |-> i1 + 1, attrs |-> attrs, brk |-> FALSE]
            ELSE
            LET name == slice(s, i1, i2)
                i3 == ScanWhileIn(s, i2, Whitespace)
            IN  IF i3 < len /\ s[i3 + 1] = "="
                THEN
                  LET i4 == ScanWhileIn(s, i3 + 1, Whitespace)
                  IN  IF i4 >= len
                      THEN [i |-> i4, attrs |-> SetAttr(attrs, name, Str(<<>>)), brk |-> TRUE]
                      ELSE
                      LET quote == s[i4 + 1]
                      IN  IF quote = "\"" \/ quote = "'"
                          THEN
                            LET i5 == ScanWhileNotIn(s, i4 + 1, {quote})
                            IN  IF i5 < len
                                THEN [i |-> i5 + 1,
                                      attrs |-> SetAttr(attrs, name, Str(decode(slice(s, i4 + 1, i5)))),
                                      brk |-> FALSE]
                                ELSE [i |-> i5, attrs |-> attrs, brk |-> FALSE]
                          ELSE
                            LET i5 == ScanWhileNotIn(s, i4, Whitespace \cup {">"})
                            IN  [i |-> i5,
                                 attrs |-> SetAttr(attrs, name, Str(decode(slice(s, i4, i5)))),
                                 brk |-> FALSE]
                ELSE [i |-> i3, attrs |-> SetAttr(attrs, name, Undefined), brk |-> FALSE]

\* One pass of the body of `while (i < len)`, entered with i < len: the
\* cursor and the mapping after it, and whether the pass left by `break`.
AttrPass(s, i, attrs) ==
    LET len == Len(s)
        i1 == ScanWhileIn(s, i, Whitespace)
    IN  IF i1 >= len THEN [i |-> i1, attrs |-> attrs, brk |-> TRUE]
        ELSE
        LET i2 == ScanWhileIn(s, i1, NameChars)
        IN  IF i2 = i1 THEN [i |-> i1 + 1, attrs |-> attrs, brk |-> FALSE]
            ELSE
            LET name == slice(s, i1, i2)
                i3 == ScanWhileIn(s, i2, Whitespace)
            IN  IF i3 < len /\ s[i3 + 1] = "="
                THEN
                  LET i4 == ScanWhileIn(s, i3 + 1, Whitespace)
                  IN  IF i4 >= len
                      THEN [i |-> i4, attrs |-> SetAttr(attrs, name, Str(<<>>)), brk |-> TRUE]
                      ELSE
                      LET quote == s[i4 + 1]
                      IN  IF quote = "\"" \/ quote = "'"
                          THEN
                            LET i5 == ScanWhileNotIn(s, i4 + 1, {quote})
                            IN  [i |-> IF i5 < len THEN i5 + 1 ELSE i5,
                                 attrs |-> SetAttr(attrs, name, Str(decode(slice(s, i4 + 1, i5)))),
                                 brk |-> FALSE]
                          ELSE
                            LET i5 == ScanWhileNotIn(s, i4, Whitespace \cup {">"})
                            IN  [i |-> i5,
                                 attrs |-> SetAttr(attrs, name, Str(decode(slice(s, i4, i5)))),
                                 brk |-> FALSE]
                ELSE [i |-> i3, attrs |-> SetAttr(attrs, name, Undefined), brk |-> FALSE]

RECURSIVE AttrLoop(_, _, _, _)
\* the while loop from cursor i on; cursors lists the cursor at the start
\* of each pass and after the last one
AttrLoop(s, i, attrs, cursors) ==
    IF i >= Len(s) THEN [attrs |-> attrs, cursors |-> Append(cursors, i)]
    ELSE LET p == AttrPass(s, i, attrs)
         IN  IF p.brk THEN [attrs |-> p.attrs, cursors |-> cursors \o <<i, p.i>>]
             ELSE AttrLoop(s, p.i, p.attrs, Append(cursors, i))

parseAttributes(attrString) == AttrLoop(attrString, 0, <<>>, <<>>)

\* /^([\w:-]+)/
MatchTagName(content) == slice(content, 0, ScanWhileIn(content, 0, NameChars))

\* parseStartTagContent: ok = FALSE is the result null
parseStartTagContent(tagContent) ==
    LET content0 == trim(tagContent)
        selfClosing == endsWith(content0, <<"/">>)
        content == IF selfClosing THEN trim(slice(content0, 0, Len(content0) - 1)) ELSE content0
        tagName == MatchTagName(content)
    IN  IF tagName = <<>>
        THEN [ok |-> FALSE, tagName |-> <<>>, attrs |-> <<>>, cursors |-> <<>>,
              selfClosing |-> selfClosing]
        ELSE LET lexed == parseAttributes(substringFrom(content, Len(tagName)))
             IN  [ok |-> TRUE, tagName |-> tagName, attrs |-> lexed.attrs,
                  cursors |-> lexed.cursors, selfClosing |-> selfClosing]

\* ------------------------------------------------------------------------
\* Static classifiers (elements.ts, attributes.ts)
\* ------------------------------------------------------------------------

voidElements ==
    { <<"a","r","e","a">>, <<"b","r">>, <<"c","o","l">>, <<"h","r">>, <<"i","m","g">>,
      <<"w","b","r">>, <<"i","n","p","u","t">>, <<"b","a","s","e">>,
      <<"b","a","s","e","f","o","n","t">>, <<"l","i","n","k">>, <<"m","e","t","a">> }

isVoidElement(tag) == tag \in voidElements

uriAttributes ==
    { <<"b","a","c","k","g","r","o","u","n","d">>, <<"b","a","s","e">>, <<"c","i","t","e">>,
      <<"h","r","e","f">>, <<"l","o","n","g","d","e","s","c">>, <<"s","r","c">>,
      <<"u","s","e","m","a","p">> }

\* faulty variant of isUriAttribute: only href is URL-bearing
isUriAttribute_HrefOnly(attr) == attr = <<"h","r","e","f">>

isUriAttribute(attr) == attr \in uriAttributes

\* ------------------------------------------------------------------------
\* The resolved policy and its callbacks
\* ------------------------------------------------------------------------

\* A policy is a record
\*   [allowedTags, allowedSchemes : sets of strings,
\*    allowedAttributes, allowedClasses : functions from strings to sets of strings,
\*    filter, transformText : the name of a callback, "null" for none].

div == <<"d","i","v">>
class == <<"c","l","a","s","s">>
star == <<"*">>

\* The lower-case property names every object inherits from Object.prototype:
\* map[key] finds them when the map has no own property of that name.
InheritedKeys == { <<"c","o","n","s","t","r","u","c","t","o","r">>,
                   <<"_","_","p","r","o","t","o","_","_">> }

\* map[key] ?? []: ok = FALSE when the value found is not an array
Lookup(map, key) ==
    IF key \in DOMAIN map THEN [ok |-> TRUE, items |-> map[key]]
    ELSE IF key \in InheritedKeys THEN [ok |-> FALSE, items |-> {}]
    ELSE [ok |-> TRUE, items |-> {}]

hasKey(attrs, name) == \E k \in DOMAIN attrs : attrs[k].name = name /\ attrs[k].has

\* options.filter(token): "true", "false", or "throw" when the call raises
\* (calling null raises a TypeError)
CallFilter(f, tag, attrs) ==
    CASE f = "rejectAll" -> "false"
      [] f = "acceptAll" -> "true"
      [] f = "notDiv" -> IF tag # div THEN "true" ELSE "false"
      [] f = "divHasTitle" ->
            IF tag # div \/ hasKey(attrs, <<"t","i","t","l","e">>) THEN "true" ELSE "false"
      [] OTHER -> "throw"

toUpperCase(s) ==
    [i \in 1..Len(s) |->
        IF s[i] \in Range(LowerLetters)
        THEN UpperLetters[CHOOSE k \in 1..26 : LowerLetters[k] = s[i]]
        ELSE s[i]]

\* options.transformText(text): ok = FALSE when the call raises
CallTransformText(f, text) ==
    CASE f = "toUpperCase" -> [ok |-> TRUE, text |-> toUpperCase(text)]
      [] OTHER -> [ok |-> FALSE, text |-> <<>>]

\* ------------------------------------------------------------------------
\* Option resolution and the native path (index.ts, native.ts)
\* ------------------------------------------------------------------------

\* defaults.allowedTags
defaultTags ==
    {
      <<"a">>, <<"a","b","b","r">>, <<"a","r","t","i","c","l","e">>, <<"b">>,
      <<"b","l","o","c","k","q","u","o","t","e">>, <<"b","r">>,
      <<"c","a","p","t","i","o","n">>, <<"c","o","d","e">>, <<"d","e","l">>,
      <<"d","e","t","a","i","l","s">>, <<"d","i","v">>, <<"e","m">>, <<"h","1">>,
      <<"h","2">>, <<"h","3">>, <<"h","4">>, <<"h","5">>, <<"h","6">>, <<"h","r">>,
      <<"i">>, <<"i","m","g">>, <<"i","n","s">>, <<"k","b","d">>, <<"l","i">>,
      <<"m","a","i","n">>, <<"m","a","r","k">>, <<"o","l">>, <<"p">>, <<"p","r","e">>,
      <<"s","e","c","t","i","o","n">>, <<"s","p","a","n">>, <<"s","t","r","i","k","e">>,
      <<"s","t","r","o","n","g">>, <<"s","u","b">>, <<"s","u","m","m","a","r","y">>,
      <<"s","u","p">>, <<"t","a","b","l","e">>, <<"t","b","o","d","y">>, <<"t","d">>,
      <<"t","h">>, <<"t","h","e","a","d">>, <<"t","r">>, <<"u">>, <<"u","l">> }

\* defaults: the default options
defaults ==
    [allowedTags |-> defaultTags,
     allowedAttributes |->
         (<<"*">> :> {<<"t","i","t","l","e">>, <<"a","c","c","e","s","s","k","e","y">>})
         @@ (<<"a">> :> {<<"h","r","e","f">>, <<"n","a","m","e">>, <<"t","a","r","g","e","t">>, <<"a","r","i","a","-","l","a","b","e","l">>})
         @@ (<<"i","f","r","a","m","e">> :> {<<"a","l","l","o","w","f","u","l","l","s","c","r","e","e","n">>, <<"f","r","a","m","e","b","o","r","d","e","r">>, <<"s","r","c">>})
         @@ (<<"i","m","g">> :> {<<"s","r","c">>, <<"a","l","t">>, <<"t","i","t","l","e">>, <<"a","r","i","a","-","l","a","b","e","l">>}),
     allowedClasses |-> <<>>,
     allowedSchemes |-> {<<"h","t","t","p">>, <<"h","t","t","p","s">>, <<"m","a","i","l","t","o">>},
     filter |-> "null",
     transformText |-> "null"]

\* The argument options is a record [defined, fields]: defined = FALSE is
\* undefined, and fields maps the names of the fields the caller supplies
\* to their values. The argument strict is "true", "false" or "undefined".
NoOptions == [defined |-> FALSE, fields |-> <<>>]

Supplied(fields) == [defined |-> TRUE, fields |-> fields]

\* o.name ?? otherwise
Field(o, name, otherwise) == IF name \in DOMAIN o.fields THEN o.fields[name] ELSE otherwise

resolveOptions(o, strict) ==
    IF strict = "true" /\ o.defined
    THEN [allowedTags |-> Field(o, "allowedTags", {}),
          allowedAttributes |-> Field(o, "allowedAttributes", <<>>),
          allowedClasses |-> Field(o, "allowedClasses", <<>>),
          allowedSchemes |-> Field(o, "allowedSchemes", {}),
          filter |-> Field(o, "filter", "null"),
          transformText |-> Field(o, "transformText", "null")]
    ELSE IF ~o.defined THEN defaults
    ELSE [allowedTags |-> Field(o, "allowedTags", defaults.allowedTags),
          allowedAttributes |-> Field(o, "allowedAttributes", defaults.allowedAttributes),
          allowedClasses |-> Field(o, "allowedClasses", defaults.allowedClasses),
          allowedSchemes |-> Field(o, "allowedSchemes", defaults.allowedSchemes),
          filter |-> Field(o, "filter", defaults.filter),
          transformText |-> Field(o, "transformText", defaults.transformText)]

\* canUseNative: nativeSchemes
nativeSchemes == {<<"h","t","t","p">>, <<"h","t","t","p","s">>, <<"m","a","i","l","t","o">>, <<"t","e","l">>}

\* faulty variant of canUseNative: the allowed schemes are not looked at
canUseNative_AnyScheme(options) ==
    IF options.filter # "null" THEN FALSE
    ELSE IF options.transformText # "null" THEN FALSE
    ELSE ~\E tag \in DOMAIN options.allowedClasses : options.allowedClasses[tag] # {}

canUseNative(options) ==
    IF options.filter # "null" THEN FALSE
    ELSE IF options.transformText # "null" THEN FALSE
    ELSE IF \E tag \in DOMAIN options.allowedClasses : options.allowedClasses[tag] # {}
    THEN FALSE
    ELSE ~\E scheme \in options.allowedSchemes : scheme \notin nativeSchemes

\* ------------------------------------------------------------------------
\* Whitelist filter (sanitizer.ts: createSanitizer)
\* ------------------------------------------------------------------------

\* context.ignoring === false
NotIgnoring == <<"false">>

\* The handler's state is a record h:
\*   buffer   the output pieces (string[]),
\*   context  [ignoring, depth],
\*   emitted  what the pieces are: the tags and texts written, in order,
\*   calls    how many times a callback of the policy was invoked,
\*   thrown   whether an error left the handler.

reset == [ignoring |-> NotIgnoring, depth |-> 0]

\* faulty variant of createSanitizer: the context is shared by the handlers,
\* a new one goes on with what the one before it left
createSanitizer_SharedContext(left) == left

\* createSanitizer: `let context = { ignoring: false, depth: 0 }` belongs to
\* the handler it returns; a new handler starts with this context, whatever
\* context left the handler of the call before it ended with
createSanitizer(left) == reset

out(h, value) == [h EXCEPT !.buffer = Append(@, value)]

\* faulty variant of ignore: while suppressing, a start tag of any name
\* raises the depth
ignore_CountsAll(context, tag) ==
    IF isVoidElement(tag) THEN context
    ELSE IF context.ignoring = NotIgnoring THEN [ignoring |-> tag, depth |-> 1]
    ELSE [context EXCEPT !.depth = @ + 1]

ignore(context, tag) ==
    IF isVoidElement(tag) THEN context
    ELSE IF context.ignoring = NotIgnoring THEN [ignoring |-> tag, depth |-> 1]
    ELSE IF context.ignoring = tag THEN [context EXCEPT !.depth = @ + 1]
    ELSE context

\* faulty variant of unignore: the depth is not counted
unignore_NoDepth(context, tag) ==
    IF context.ignoring = tag THEN reset ELSE context

\* faulty variant of unignore: the ignored tag is kept when the depth
\* reaches 0
unignore_KeepsTag(context, tag) ==
    IF context.ignoring = tag THEN [context EXCEPT !.depth = @ - 1] ELSE context

unignore(context, tag) ==
    IF context.ignoring = tag
    THEN IF context.depth - 1 <= 0 THEN reset ELSE [context EXCEPT !.depth = @ - 1]
    ELSE context

\* faulty variant of testUrl: an allowed scheme is looked for anywhere in the text
testUrl_SchemeAnywhere(options, text) ==
    LET colon == indexOf(text, <<":">>)
        questionmark == indexOf(text, <<"?">>)
        hash == indexOf(text, <<"#">>)
    IN  IF text # <<>> /\ (text[1] = "#" \/ text[1] = "/") THEN TRUE
        ELSE IF colon = -1 THEN TRUE
        ELSE IF questionmark # -1 /\ colon > questionmark THEN TRUE
        ELSE IF hash # -1 /\ colon > hash THEN TRUE
        ELSE \E scheme \in options.allowedSchemes : indexOf(text, scheme \o <<":">>) >= 0

\* faulty variant of testUrl: the scheme is compared without regard to case
testUrl_IgnoreCase(options, text) ==
    LET colon == indexOf(text, <<":">>)
        questionmark == indexOf(text, <<"?">>)
        hash == indexOf(text, <<"#">>)
    IN  IF text # <<>> /\ (text[1] = "#" \/ text[1] = "/") THEN TRUE
        ELSE IF colon = -1 THEN TRUE
        ELSE IF questionmark # -1 /\ colon > questionmark THEN TRUE
        ELSE IF hash # -1 /\ colon > hash THEN TRUE
        ELSE \E scheme \in options.allowedSchemes :
                 indexOf(toLowerCase(text), toLowerCase(scheme) \o <<":">>) = 0

testUrl(options, text) ==
    LET colon == indexOf(text, <<":">>)
        questionmark == indexOf(text, <<"?">>)
        hash == indexOf(text, <<"#">>)
    IN  IF text # <<>> /\ (text[1] = "#" \/ text[1] = "/") THEN TRUE
        ELSE IF colon = -1 THEN TRUE
        ELSE IF questionmark # -1 /\ colon > questionmark THEN TRUE
        ELSE IF hash # -1 /\ colon > hash THEN TRUE
        ELSE \E scheme \in options.allowedSchemes : indexOf(text, scheme \o <<":">>) = 0

RECURSIVE split(_)
\* value.split(" ")
split(value) ==
    LET sp == indexOf(value, <<" ">>)
    IN  IF sp = -1 THEN <<value>>
        ELSE <<substring(value, 0, sp)>> \o split(substringFrom(value, sp + 1))

RECURSIVE joinSpace_NoSeparator(_)
\* faulty variant of joinSpace: the tokens are joined without the space
joinSpace_NoSeparator(tokens) ==
    IF tokens = <<>> THEN <<>> ELSE tokens[1] \o joinSpace_NoSeparator(Tail(tokens))

RECURSIVE joinSpace(_)
\* tokens.join(" ")
joinSpace(tokens) ==
    IF tokens = <<>> THEN <<>>
    ELSE IF Len(tokens) = 1 THEN tokens[1]
    ELSE tokens[1] \o <<" ">> \o joinSpace(Tail(tokens))

\* the emitted log with one attribute added to its last start tag
NoteAttr(emitted, key, v) ==
    [emitted EXCEPT ![Len(emitted)].attrs =
        Append(@, [name |-> key, has |-> v.has, value |-> v.value])]

\* faulty variant of valid: the key is not tested against the allowed attributes
valid_NoWhitelist(options, lkey, v, attrsOk, filtered) ==
    IF lkey = class /\ lkey \notin attrsOk
    THEN v.has /\ Len(filtered) > 0
    ELSE ~isUriAttribute(lkey) \/ ~v.has \/ testUrl(options, v.value)

\* the decision `valid` of parseAttribute, for the lower-case key lkey:
\* attrsOk is tag's list with the global one, filtered the kept classes
valid(options, lkey, v, attrsOk, filtered) ==
    IF lkey = class /\ lkey \notin attrsOk
    THEN v.has /\ Len(filtered) > 0
    ELSE lkey \in attrsOk /\ (~isUriAttribute(lkey) \/ ~v.has \/ testUrl(options, v.value))

\* faulty variant of parseAttribute: the value is written as it is, not encoded
parseAttribute_NoEncode(h, options, key, v, tag) ==
    LET classesOk == Lookup(options.allowedClasses, tag)
        attrsOk0 == Lookup(options.allowedAttributes, tag)
        globalAttrs == Lookup(options.allowedAttributes, star)
        attrsOk == attrsOk0.items \cup globalAttrs.items
        lkey == lowercase(key)
        classPath == lkey = class /\ lkey \notin attrsOk
        filtered == trim(joinSpace(SelectSeq(split(v.value), LAMBDA c : c \in classesOk.items)))
        outputValue == IF classPath /\ v.has THEN Str(filtered) ELSE v
    IN  IF ~attrsOk0.ok \/ (classPath /\ v.has /\ ~classesOk.ok)
        THEN [h EXCEPT !.thrown = TRUE]
        ELSE IF ~valid(options, lkey, v, attrsOk, filtered) THEN h
        ELSE LET h1 == out(out(h, <<" ">>), key)
                 h2 == IF outputValue.has
                       THEN out(out(out(h1, <<"=", "\"">>), outputValue.value), <<"\"">>)
                       ELSE h1
             IN  [h2 EXCEPT !.emitted = NoteAttr(@, key, outputValue)]

\* faulty variant of parseAttribute: class is filtered even when it is an
\* allowed attribute
parseAttribute_AlwaysFilter(h, options, key, v, tag) ==
    LET classesOk == Lookup(options.allowedClasses, tag)
        attrsOk0 == Lookup(options.allowedAttributes, tag)
        globalAttrs == Lookup(options.allowedAttributes, star)
        attrsOk == attrsOk0.items \cup globalAttrs.items
        lkey == lowercase(key)
        classPath == lkey = class
        filtered == trim(joinSpace(SelectSeq(split(v.value), LAMBDA c : c \in classesOk.items)))
        outputValue == IF classPath /\ v.has THEN Str(filtered) ELSE v
    IN  IF ~attrsOk0.ok \/ (classPath /\ v.has /\ ~classesOk.ok)
        THEN [h EXCEPT !.thrown = TRUE]
        ELSE IF ~(IF classPath THEN v.has /\ Len(filtered) > 0
                  ELSE valid(options, lkey, v, attrsOk, filtered)) THEN h
        ELSE LET h1 == out(out(h, <<" ">>), key)
                 h2 == IF outputValue.has
                       THEN out(out(out(h1, <<"=", "\"">>), encode(outputValue.value)), <<"\"">>)
                       ELSE h1
             IN  [h2 EXCEPT !.emitted = NoteAttr(@, key, outputValue)]

\* faulty variant of parseAttribute: an empty value is written like no value
parseAttribute_EmptyAsBare(h, options, key, v, tag) ==
    LET classesOk == Lookup(options.allowedClasses, tag)
        attrsOk0 == Lookup(options.allowedAttributes, tag)
        globalAttrs == Lookup(options.allowedAttributes, star)
        attrsOk == attrsOk0.items \cup globalAttrs.items
        lkey == lowercase(key)
        classPath == lkey = class /\ lkey \notin attrsOk
        filtered == trim(joinSpace(SelectSeq(split(v.value), LAMBDA c : c \in classesOk.items)))
        outputValue == IF classPath /\ v.has THEN Str(filtered) ELSE v
    IN  IF ~attrsOk0.ok \/ (classPath /\ v.has /\ ~classesOk.ok)
        THEN [h EXCEPT !.thrown = TRUE]
        ELSE IF ~valid(options, lkey, v, attrsOk, filtered) THEN h
        ELSE LET h1 == out(out(h, <<" ">>), key)
                 h2 == IF outputValue.has /\ outputValue.value # <<>>
                       THEN out(out(out(h1, <<"=", "\"">>), encode(outputValue.value)), <<"\"">>)
                       ELSE h1
             IN  [h2 EXCEPT !.emitted = NoteAttr(@, key, outputValue)]

parseAttribute(h, options, key, v, tag) ==
    LET classesOk == Lookup(options.allowedClasses, tag)
        attrsOk0 == Lookup(options.allowedAttributes, tag)
        globalAttrs == Lookup(options.allowedAttributes, star)
        attrsOk == attrsOk0.items \cup globalAttrs.items
        lkey == lowercase(key)
        classPath == lkey = class /\ lkey \notin attrsOk
        filtered == trim(joinSpace(SelectSeq(split(v.value), LAMBDA c : c \in classesOk.items)))
        outputValue == IF classPath /\ v.has THEN Str(filtered) ELSE v
    IN  \* attrsOk.concat and classesOk.includes raise a TypeError on a value
        \* that is not an array
        IF ~attrsOk0.ok \/ (classPath /\ v.has /\ ~classesOk.ok)
        THEN [h EXCEPT !.thrown = TRUE]
        ELSE IF ~valid(options, lkey, v, attrsOk, filtered) THEN h
        ELSE LET h1 == out(out(h, <<" ">>), key)
                 h2 == IF outputValue.has
                       THEN out(out(out(h1, <<"=", "\"">>), encode(outputValue.value)), <<"\"">>)
                       ELSE h1
             IN  [h2 EXCEPT !.emitted = NoteAttr(@, key, outputValue)]

Digit(c) == CHOOSE n \in 0..9 : <<"0","1","2","3","4","5","6","7","8","9">>[n + 1] = c

RECURSIVE NumVal(_)
NumVal(name) ==
    IF name = <<>> THEN 0
    ELSE 10 * NumVal(SubSeq(name, 1, Len(name) - 1)) + Digit(name[Len(name)])

\* an integer-like key ("0", "7", "12"; strings this short are below 2^32 - 1)
IsArrayIndex(name) ==
    /\ name # <<>>
    /\ \A i \in DOMAIN name : name[i] \in Digits
    /\ (Len(name) = 1 \/ name[1] # "0")

RECURSIVE SortByNum(_)
SortByNum(entries) ==
    IF entries = {} THEN <<>>
    ELSE LET e == CHOOSE x \in entries : \A y \in entries : NumVal(x.name) <= NumVal(y.name)
         IN  <<e>> \o SortByNum(entries \ {e})

\* Object.keys(attrs), with each key's value: the integer-like keys in
\* ascending order, then the other keys in insertion order
ObjectKeys(attrs) ==
    SortByNum({attrs[k] : k \in {j \in DOMAIN attrs : IsArrayIndex(attrs[j].name)}})
    \o SelectSeq(attrs, LAMBDA e : ~IsArrayIndex(e.name))

RECURSIVE ParseAttributesOf(_, _, _, _)
\* for (const key of Object.keys(attrs)) parseAttribute(key, attrs[key], low)
ParseAttributesOf(h, options, keys, tag) ==
    IF keys = <<>> \/ h.thrown THEN h
    ELSE ParseAttributesOf(
             parseAttribute(h, options, keys[1].name, [has |-> keys[1].has, value |-> keys[1].value], tag),
             options, Tail(keys), tag)

\* the accepted branch of start: the tag is written with its attributes
accept(h, options, low, attrs, unary) ==
    LET h1 == [out(out(h, <<"<">>), low) EXCEPT !.emitted =
                  Append(@, [kind |-> "start", tag |-> low, attrs |-> <<>>,
                             unary |-> unary, text |-> <<>>])]
        h2 == ParseAttributesOf(h1, options, ObjectKeys(attrs), low)
    IN  IF h2.thrown THEN h2
        ELSE out(h2, IF unary THEN <<"/", ">">> ELSE <<">">>)

\* faulty variant of start: the tag is not tested against allowedTags
start_NoWhitelist(h, options, tag, attrs, unary) ==
    LET low == lowercase(tag)
    IN  IF h.context.ignoring # NotIgnoring THEN [h EXCEPT !.context = ignore(@, low)]
        ELSE accept(h, options, low, attrs, unary)

\* faulty variant of start: the predicate is asked before the tag is tested
\* against allowedTags
start_FilterFirst(h, options, tag, attrs, unary) ==
    LET low == lowercase(tag)
        ignored == [h EXCEPT !.context = ignore(@, low)]
        verdict == CallFilter(options.filter, low, attrs)
        called == [h EXCEPT !.calls = @ + 1]
    IN  IF h.context.ignoring # NotIgnoring THEN ignored
        ELSE IF options.filter = "null"
        THEN IF low \notin options.allowedTags THEN ignored
             ELSE accept(h, options, low, attrs, unary)
        ELSE IF verdict = "throw" THEN [called EXCEPT !.thrown = TRUE]
        ELSE IF verdict = "false" \/ low \notin options.allowedTags
        THEN [called EXCEPT !.context = ignore(@, low)]
        ELSE accept(called, options, low, attrs, unary)

start(h, options, tag, attrs, unary) ==
    LET low == lowercase(tag)
        ignored == [h EXCEPT !.context = ignore(@, low)]
        verdict == CallFilter(options.filter, low, attrs)
        called == [h EXCEPT !.calls = @ + 1]
    IN  IF h.context.ignoring # NotIgnoring THEN ignored
        ELSE IF low \notin options.allowedTags THEN ignored
        ELSE IF options.filter = "null" THEN accept(h, options, low, attrs, unary)
        ELSE IF verdict = "throw" THEN [called EXCEPT !.thrown = TRUE]
        ELSE IF verdict = "false" THEN [called EXCEPT !.context = ignore(@, low)]
        ELSE accept(called, options, low, attrs, unary)

end(h, options, tag) ==
    LET low == lowercase(tag)
        allowed == low \in options.allowedTags
    IN  IF allowed /\ h.context.ignoring = NotIgnoring
        THEN [out(out(out(h, <<"<", "/">>), low), <<">">>) EXCEPT !.emitted =
                 Append(@, [kind |-> "end", tag |-> low, attrs |-> <<>>,
                            unary |-> FALSE, text |-> <<>>])]
        ELSE [h EXCEPT !.context = unignore(@, low)]

\* faulty variant of chars: an error of the text-transform is swallowed and
\* the text is dropped
chars_Swallow(h, options, text) ==
    IF h.context.ignoring # NotIgnoring THEN h
    ELSE IF options.transformText = "null"
    THEN [out(h, text) EXCEPT !.emitted =
             Append(@, [kind |-> "text", tag |-> <<>>, attrs |-> <<>>,
                        unary |-> FALSE, text |-> text])]
    ELSE LET r == CallTransformText(options.transformText, text)
             called == [h EXCEPT !.calls = @ + 1]
         IN  IF ~r.ok THEN called
             ELSE [out(called, r.text) EXCEPT !.emitted =
                      Append(@, [kind |-> "text", tag |-> <<>>, attrs |-> <<>>,
                                 unary |-> FALSE, text |-> r.text])]

\* faulty variant of chars: the text is written entity-encoded
chars_Encoded(h, options, text) ==
    IF h.context.ignoring # NotIgnoring THEN h
    ELSE IF options.transformText = "null"
    THEN [out(h, encode(text)) EXCEPT !.emitted =
             Append(@, [kind |-> "text", tag |-> <<>>, attrs |-> <<>>,
                        unary |-> FALSE, text |-> encode(text)])]
    ELSE LET r == CallTransformText(options.transformText, encode(text))
             called == [h EXCEPT !.calls = @ + 1]
         IN  IF ~r.ok THEN [called EXCEPT !.thrown = TRUE]
             ELSE [out(called, r.text) EXCEPT !.emitted =
                      Append(@, [kind |-> "text", tag |-> <<>>, attrs |-> <<>>,
                                 unary |-> FALSE, text |-> r.text])]

chars(h, options, text) ==
    IF h.context.ignoring # NotIgnoring THEN h
    ELSE IF options.transformText = "null"
    THEN [out(h, text) EXCEPT !.emitted =
             Append(@, [kind |-> "text", tag |-> <<>>, attrs |-> <<>>,
                        unary |-> FALSE, text |-> text])]
    ELSE LET r == CallTransformText(options.transformText, text)
             called == [h EXCEPT !.calls = @ + 1]
         IN  IF ~r.ok THEN [called EXCEPT !.thrown = TRUE]
             ELSE [out(called, r.text) EXCEPT !.emitted =
                      Append(@, [kind |-> "text", tag |-> <<>>, attrs |-> <<>>,
                                 unary |-> FALSE, text |-> r.text])]

\* ------------------------------------------------------------------------
\* Tokenizer (parser)
\* ------------------------------------------------------------------------

\* rcomment = /^<!--/
rcomment(s) == startsWith(s, <<"<","!","-","-">>)

\* rtag = /^</
rtag(s) == startsWith(s, <<"<">>)

\* rtagend = /^<\s*\//
rtagend(s) ==
    /\ rtag(s)
    /\ LET j == ScanWhileIn(s, 1, Whitespace)
       IN  j < Len(s) /\ s[j + 1] = "/"

\* remaining.match(rendSimple), rendSimple = /^<\s*\/\s*([\w:-]+)\s*>/:
\* ok = FALSE is null; length is match[0].length and tagName is match[1]
MatchEndSimple(s) ==
    LET none == [ok |-> FALSE, length |-> 0, tagName |-> <<>>]
    IN  IF ~rtagend(s) THEN none
        ELSE LET j1 == ScanWhileIn(s, ScanWhileIn(s, 1, Whitespace) + 1, Whitespace)
                 j2 == ScanWhileIn(s, j1, NameChars)
                 j3 == ScanWhileIn(s, j2, Whitespace)
             IN  IF j2 > j1 /\ j3 < Len(s) /\ s[j3 + 1] = ">"
                 THEN [ok |-> TRUE, length |-> j3 + 1, tagName |-> slice(s, j1, j2)]
                 ELSE none

\* The state one iteration works on is a record m:
\*   remaining, stack, chars (the flag of the iteration),
\*   h (the handler's state), events, cursors.

\* the token a handler call consumed, with what the call did
Event(kind, tag, attrs, unary, text, level, synthetic, h, h1) ==
    [kind |-> kind, tag |-> tag, attrs |-> attrs, unary |-> unary, text |-> text,
     level |-> level, synthetic |-> synthetic,
     passingBefore |-> h.context.ignoring = NotIgnoring,
     passingAfter |-> h1.context.ignoring = NotIgnoring,
     before |-> h.context, after |-> h1.context,
     wrote |-> Len(h1.buffer) - Len(h.buffer),
     called |-> h1.calls - h.calls]

RECURSIVE EndLoop(_, _, _, _, _)
\* for (let i = stack.length - 1; i >= pos; i--) handler.end(stack.at(i))
EndLoop(m, options, i, pos, synthetic) ==
    IF i < pos THEN m
    ELSE LET tag == m.stack[i + 1]
             h1 == end(m.h, options, tag)
         IN  EndLoop([m EXCEPT !.h = h1,
                               !.events = Append(@, Event("end", tag, <<>>, FALSE, <<>>,
                                                          i + 1, synthetic, m.h, h1))],
                     options, i - 1, pos, synthetic)

\* faulty variant of FindOpen: the search runs from the bottom of the stack
FindOpen_Bottommost(stk, low) ==
    LET P == {p \in 0..(Len(stk) - 1) : stk[p + 1] = low}
    IN  IF P = {} THEN -1 ELSE CHOOSE p \in P : \A q \in P : p <= q

\* the closest opened tag of the same type, -1 when there is none
FindOpen(stk, low) ==
    LET P == {p \in 0..(Len(stk) - 1) : stk[p + 1] = low}
    IN  IF P = {} THEN -1 ELSE CHOOSE p \in P : \A q \in P : q <= p

\* faulty variant of parseEndTag: the loop stops one element early (i > pos)
parseEndTag_StopsEarly(m, options, tagName, synthetic) ==
    LET low == lowercase(tagName)
        pos == IF low # <<>> THEN FindOpen(m.stack, low) ELSE 0
    IN  IF pos >= 0
        THEN [EndLoop(m, options, Len(m.stack) - 1, pos + 1, synthetic)
                EXCEPT !.stack = SubSeq(m.stack, 1, pos)]
        ELSE m

\* faulty variant of parseEndTag: a name that is not open closes every element
parseEndTag_UnmatchedClosesAll(m, options, tagName, synthetic) ==
    LET low == lowercase(tagName)
        pos == IF low # <<>> /\ FindOpen(m.stack, low) >= 0 THEN FindOpen(m.stack, low) ELSE 0
    IN  [EndLoop(m, options, Len(m.stack) - 1, pos, synthetic)
            EXCEPT !.stack = SubSeq(m.stack, 1, pos)]

parseEndTag(m, options, tagName, synthetic) ==
    LET low == lowercase(tagName)
        pos == IF low # <<>> THEN FindOpen(m.stack, low) ELSE 0
    IN  IF pos >= 0
        THEN [EndLoop(m, options, Len(m.stack) - 1, pos, synthetic)
                EXCEPT !.stack = SubSeq(m.stack, 1, pos)]
        ELSE m

\* faulty variant of parseComment: the comment runs to the last "-->"
parseComment_Greedy(m) ==
    LET I == {i \in 0..(Len(m.remaining) - 3) : SubSeq(m.remaining, i + 1, i + 3) = <<"-","-",">">>}
        index == IF I = {} THEN -1 ELSE CHOOSE i \in I : \A j \in I : j <= i
    IN  IF index >= 0
        THEN [m EXCEPT !.events = Append(@, Event("comment", <<>>, <<>>, FALSE,
                                                  substring(m.remaining, 4, index),
                                                  Len(m.stack), FALSE, m.h, m.h)),
                       !.remaining = substringFrom(m.remaining, index + 3),
                       !.chars = FALSE]
        ELSE m

parseComment(m) ==
    LET index == indexOf(m.remaining, <<"-","-",">">>)
    IN  IF index >= 0
        THEN [m EXCEPT !.events = Append(@, Event("comment", <<>>, <<>>, FALSE,
                                                  substring(m.remaining, 4, index),
                                                  Len(m.stack), FALSE, m.h, m.h)),
                       !.remaining = substringFrom(m.remaining, index + 3),
                       !.chars = FALSE]
        ELSE m

\* faulty variant of parseStartTagMatch: only a void name makes a tag unary
parseStartTagMatch_VoidOnly(m, options) ==
    LET closeIndex == indexOf(m.remaining, <<">">>)
        \* the rest of the function, from the result of parseStartTagContent on
        Matched(parsed) ==
            LET low == lowercase(parsed.tagName)
                isUnary == isVoidElement(low)
                stack1 == IF isUnary THEN m.stack ELSE Append(m.stack, low)
                Handled(h1) ==
                    [m EXCEPT !.remaining = substringFrom(m.remaining, closeIndex + 1),
                              !.chars = FALSE,
                              !.stack = stack1,
                              !.h = h1,
                              !.cursors = Append(@, parsed.cursors),
                              !.events = Append(@, Event("start", low, parsed.attrs, isUnary,
                                                         <<>>, Len(stack1), FALSE, m.h, h1))]
            IN  IF ~parsed.ok THEN m
                ELSE Handled(start(m.h, options, low, parsed.attrs, isUnary))
    IN  IF closeIndex = -1 THEN m
        ELSE Matched(parseStartTagContent(substring(m.remaining, 1, closeIndex)))

\* faulty variant of parseStartTagMatch: without a '>' the tag extends to
\* the end of the input
parseStartTagMatch_OpenEnded(m, options) ==
    LET found == indexOf(m.remaining, <<">">>)
        closeIndex == IF found = -1 THEN Len(m.remaining) ELSE found
        \* the rest of the function, from the result of parseStartTagContent on
        Matched(parsed) ==
            LET low == lowercase(parsed.tagName)
                isUnary == isVoidElement(low) \/ parsed.selfClosing
                stack1 == IF isUnary THEN m.stack ELSE Append(m.stack, low)
                Handled(h1) ==
                    [m EXCEPT !.remaining = substringFrom(m.remaining, closeIndex + 1),
                              !.chars = FALSE,
                              !.stack = stack1,
                              !.h = h1,
                              !.cursors = Append(@, parsed.cursors),
                              !.events = Append(@, Event("start", low, parsed.attrs, isUnary,
                                                         <<>>, Len(stack1), FALSE, m.h, h1))]
            IN  IF ~parsed.ok THEN m
                ELSE Handled(start(m.h, options, low, parsed.attrs, isUnary))
    IN  Matched(parseStartTagContent(substring(m.remaining, 1, closeIndex)))

\* faulty variant of parseStartTagMatch: a unary tag is pushed on the stack
\* as well
parseStartTagMatch_PushesUnary(m, options) ==
    LET closeIndex == indexOf(m.remaining, <<">">>)
        \* the rest of the function, from the result of parseStartTagContent on
        Matched(parsed) ==
            LET low == lowercase(parsed.tagName)
                isUnary == isVoidElement(low) \/ parsed.selfClosing
                stack1 == Append(m.stack, low)
                Handled(h1) ==
                    [m EXCEPT !.remaining = substringFrom(m.remaining, closeIndex + 1),
                              !.chars = FALSE,
                              !.stack = stack1,
                              !.h = h1,
                              !.cursors = Append(@, parsed.cursors),
                              !.events = Append(@, Event("start", low, parsed.attrs, isUnary,
                                                         <<>>, Len(stack1), FALSE, m.h, h1))]
            IN  IF ~parsed.ok THEN m
                ELSE Handled(start(m.h, options, low, parsed.attrs, isUnary))
    IN  IF closeIndex = -1 THEN m
        ELSE Matched(parseStartTagContent(substring(m.remaining, 1, closeIndex)))

parseStartTagMatch(m, options) ==
    LET closeIndex == indexOf(m.remaining, <<">">>)
        \* the rest of the function, from the result of parseStartTagContent on
        Matched(parsed) ==
            LET low == lowercase(parsed.tagName)
                isUnary == isVoidElement(low) \/ parsed.selfClosing
                stack1 == IF isUnary THEN m.stack ELSE Append(m.stack, low)
                Handled(h1) ==
                    [m EXCEPT !.remaining = substringFrom(m.remaining, closeIndex + 1),
                              !.chars = FALSE,
                              !.stack = stack1,
                              !.h = h1,
                              !.cursors = Append(@, parsed.cursors),
                              !.events = Append(@, Event("start", low, parsed.attrs, isUnary,
                                                         <<>>, Len(stack1), FALSE, m.h, h1))]
            IN  IF ~parsed.ok THEN m
                ELSE Handled(start(m.h, options, low, parsed.attrs, isUnary))
    IN  IF closeIndex = -1 THEN m
        ELSE Matched(parseStartTagContent(substring(m.remaining, 1, closeIndex)))

parseEndTagMatch(m, options) ==
    LET match == MatchEndSimple(m.remaining)
    IN  IF match.ok /\ match.tagName # <<>>
        THEN [parseEndTag([m EXCEPT !.remaining = substringFrom(m.remaining, match.length)],
                          options, match.tagName, FALSE)
                EXCEPT !.chars = FALSE]
        ELSE m

\* faulty variant of parseTagDecode: a tag that could not be parsed is
\* handed over as text up to the next tag
parseTagDecode_FragmentAsText(m, options) ==
    IF ~m.chars \/ m.h.thrown THEN m
    ELSE LET rest == substringFrom(m.remaining, 1)
             next == indexOf(rest, <<"<">>)
             index == IF m.remaining[1] # "<" THEN indexOf(m.remaining, <<"<">>)
                      ELSE IF next >= 0 THEN next + 1 ELSE -1
             text == IF index >= 0 THEN substring(m.remaining, 0, index) ELSE m.remaining
             h1 == chars(m.h, options, text)
         IN  [m EXCEPT !.remaining = IF index >= 0 THEN substringFrom(m.remaining, index)
                                      ELSE <<>>,
                       !.h = h1,
                       !.events = Append(@, Event("text", <<>>, <<>>, FALSE, text,
                                                  Len(m.stack), FALSE, m.h, h1))]

parseTagDecode(m, options) ==
    IF ~m.chars \/ m.h.thrown THEN m
    ELSE LET index == indexOf(m.remaining, <<"<">>)
             text == IF index >= 0 THEN substring(m.remaining, 0, index) ELSE m.remaining
             h1 == chars(m.h, options, text)
         IN  [m EXCEPT !.remaining = IF index >= 0 THEN substringFrom(m.remaining, index)
                                      ELSE <<>>,
                       !.h = h1,
                       !.events = Append(@, Event("text", <<>>, <<>>, FALSE, text,
                                                  Len(m.stack), FALSE, m.h, h1))]

\* parseTagSection: the branch the input selects, then parseTagDecode
parseTagSection(m, options) ==
    parseTagDecode(IF rcomment(m.remaining) THEN parseComment(m)
                   ELSE IF rtagend(m.remaining) THEN parseEndTagMatch(m, options)
                   ELSE IF rtag(m.remaining) THEN parseStartTagMatch(m, options)
                   ELSE m,
                   options)

RECURSIVE parser(_, _, _)
\* parser: the while loop from the state m on, then the clean-up; an error
\* leaves it at once
parser(m, options, last) ==
    IF m.remaining = <<>> THEN parseEndTag(m, options, <<>>, TRUE)
    ELSE LET m1 == parseTagSection([m EXCEPT !.chars = TRUE], options)
         IN  IF m1.h.thrown THEN m1
             ELSE parser([m1 EXCEPT !.remaining = IF m1.remaining = last THEN <<>> ELSE @],
                         options, m1.remaining)

\* sanitizeFallback(html, options): ok = FALSE when an error leaves it,
\* output is buffer.join("")
sanitizeFallback(html, options) ==
    LET m == parser([remaining |-> html, stack |-> <<>>, chars |-> TRUE,
                     h |-> [buffer |-> <<>>, context |-> reset, emitted |-> <<>>,
                            calls |-> 0, thrown |-> FALSE],
                     events |-> <<>>, cursors |-> <<>>],
                    options, html)
    IN  [ok |-> ~m.h.thrown, output |-> Join(m.h.buffer)]

VARIABLES
    html,        \* the input of the call
    options,     \* the resolved policy of the call
    remaining,   \* parser: the input not yet consumed
    last,        \* parser: remaining at the end of the previous iteration
    stack,       \* parser: the open-element stack, outermost first
    buffer,      \* sanitizeFallback: the output pieces
    context,     \* createSanitizer: the suppression context
    pc,          \* "loop": in the while loop or about to leave it;
                 \* "done": the call returned buffer.join("");
                 \* "thrown": an error left the call;
                 \* "insane": insane is entered and nothing is resolved yet
                 \* (in a lone call of testUrl: "call" before it,
                 \* "accepted" or "rejected" after it)
    emitted,     \* history: the tags and texts written to buffer
    calls,       \* history: the number of callback invocations
    events,      \* history: the tokens the tokenizer produced
    cursors,     \* history: the attribute lexer's cursor, pass by pass, in
                 \* the start tags lexed so far
    iterations,  \* history: the number of iterations of the while loop
    pass,        \* 1 in a first call, 2 when the caller sanitizes its output
    first,       \* the output of the first call, in the second
    args,        \* insane: the caller's arguments options and strict
    native       \* insane: the native Sanitizer API: "absent" or "present"
                 \* before it is tried, "returned" or "failed" once it was

vars == <<html, options, remaining, last, stack, buffer, context, pc, emitted,
          calls, events, cursors, iterations, pass, first, args, native>>

\* the state an iteration starts from (chars = true)
Machine ==
    [remaining |-> remaining, stack |-> stack, chars |-> TRUE,
     h |-> [buffer |-> buffer, context |-> context, emitted |-> emitted,
            calls |-> calls, thrown |-> FALSE],
     events |-> events, cursors |-> cursors]

\* faulty variant of Commit: an iteration without progress does not discard the input
Commit_NoDiscard(m) ==
    /\ stack' = m.stack
    /\ buffer' = m.h.buffer
    /\ context' = m.h.context
    /\ emitted' = m.h.emitted
    /\ calls' = m.h.calls
    /\ events' = m.events
    /\ cursors' = m.cursors
    /\ iterations' = iterations + 1
    /\ pc' = IF m.h.thrown THEN "thrown" ELSE pc
    /\ last' = m.remaining
    /\ remaining' = m.remaining
    /\ UNCHANGED <<html, options, pass, first, args, native>>

\* faulty variant of Commit: an iteration without progress skips one
\* character of the input
Commit_SkipsOpener(m) ==
    /\ stack' = m.stack
    /\ buffer' = m.h.buffer
    /\ context' = m.h.context
    /\ emitted' = m.h.emitted
    /\ calls' = m.h.calls
    /\ events' = m.events
    /\ cursors' = m.cursors
    /\ iterations' = iterations + 1
    /\ IF m.h.thrown
       THEN pc' = "thrown" /\ remaining' = m.remaining /\ last' = last
       ELSE /\ pc' = pc
            /\ last' = m.remaining
            /\ remaining' = IF m.remaining = last THEN Tail(m.remaining) ELSE m.remaining
    /\ UNCHANGED <<html, options, pass, first, args, native>>

\* the rest of an iteration once parseTagSection has run: the `same` test,
\* or the error leaving the call
Commit(m) ==
    /\ stack' = m.stack
    /\ buffer' = m.h.buffer
    /\ context' = m.h.context
    /\ emitted' = m.h.emitted
    /\ calls' = m.h.calls
    /\ events' = m.events
    /\ cursors' = m.cursors
    /\ iterations' = iterations + 1
    /\ IF m.h.thrown
       THEN pc' = "thrown" /\ remaining' = m.remaining /\ last' = last
       ELSE /\ pc' = pc
            /\ last' = m.remaining
            /\ remaining' = IF m.remaining = last THEN <<>> ELSE m.remaining
    /\ UNCHANGED <<html, options, pass, first, args, native>>

\* while (remaining): an iteration whose input starts a comment
ParseComment ==
    /\ pc = "loop" /\ remaining # <<>>
    /\ rcomment(remaining)
    /\ Commit(parseTagDecode(parseComment(Machine), options))

\* an iteration whose input starts an end tag
ParseEndTagMatch ==
    /\ pc = "loop" /\ remaining # <<>>
    /\ ~rcomment(remaining) /\ rtagend(remaining)
    /\ Commit(parseTagDecode(parseEndTagMatch(Machine, options), options))

\* an iteration whose input starts a tag
ParseStartTagMatch ==
    /\ pc = "loop" /\ remaining # <<>>
    /\ ~rcomment(remaining) /\ ~rtagend(remaining) /\ rtag(remaining)
    /\ Commit(parseTagDecode(parseStartTagMatch(Machine, options), options))

\* an iteration whose input starts with text
ParseTagDecode ==
    /\ pc = "loop" /\ remaining # <<>>
    /\ ~rtag(remaining)
    /\ Commit(parseTagDecode(Machine, options))

\* the loop is left: parseEndTag("") cleans up the remaining tags and
\* sanitizeFallback returns buffer.join("")
CleanUp ==
    /\ pc = "loop" /\ remaining = <<>>
    /\ LET m == parseEndTag(Machine, options, <<>>, TRUE)
       IN  /\ stack' = m.stack
           /\ buffer' = m.h.buffer
           /\ context' = m.h.context
           /\ emitted' = m.h.emitted
           /\ events' = m.events
    /\ pc' = "done"
    /\ UNCHANGED <<html, options, remaining, last, calls, cursors, iterations, pass, first,
                   args, native>>

\* the caller passes the output of a first call to a second call with the
\* same policy: fresh buffer, context and stack
Resanitize ==
    /\ pc = "done" /\ pass = 1
    /\ pass' = 2
    /\ first' = Join(buffer)
    /\ html' = Join(buffer)
    /\ remaining' = Join(buffer)
    /\ last' = Join(buffer)
    /\ stack' = <<>>
    /\ buffer' = <<>>
    /\ context' = reset
    /\ emitted' = <<>>
    /\ calls' = 0
    /\ events' = <<>>
    /\ cursors' = <<>>
    /\ iterations' = 0
    /\ pc' = "loop"
    /\ UNCHANGED <<options, args, native>>

\* the inputs of a second call:
\* x  <div>x  x</script>y  <div title=a>x</div>  <script>x</script>y
AgainInputs ==
    { <<"x">>,
      <<"<","d","i","v",">","x">>,
      <<"x","<","/","s","c","r","i","p","t",">","y">>,
      <<"<","d","i","v"," ","t","i","t","l","e","=","a",">","x","<","/","d","i","v",">">>,
      <<"<","s","c","r","i","p","t",">","x","<","/","s","c","r","i","p","t",">","y">> }

\* the caller makes a second call, on another input and with the same
\* policy object: sanitizeFallback makes a new buffer and a new handler,
\* parser a new stack
SanitizeAgain ==
    /\ pc = "done" /\ pass = 1
    /\ \E again \in AgainInputs :
          /\ html' = again
          /\ remaining' = again
          /\ last' = again
    /\ pass' = 2
    /\ first' = Join(buffer)
    /\ stack' = <<>>
    /\ buffer' = <<>>
    /\ context' = createSanitizer(context)
    /\ emitted' = <<>>
    /\ calls' = 0
    /\ events' = <<>>
    /\ cursors' = <<>>
    /\ iterations' = 0
    /\ pc' = "loop"
    /\ UNCHANGED <<options, args, native>>

\* ------------------------------------------------------------------------
\* Inputs and policies
\* ------------------------------------------------------------------------

tagP == <<"p">>
script == <<"s","c","r","i","p","t">>
br == <<"b","r">>
title == <<"t","i","t","l","e">>

\* every input made of at most MaxPieces pieces of core and odd, at most
\* MaxOdd of them of odd
InputsFrom(core, odd) ==
    LET all == core \o odd
        choices == UNION {[1..n -> 1..Len(all)] : n \in 0..MaxPieces}
    IN  {Join([i \in DOMAIN c |-> all[c[i]]]) :
            c \in {d \in choices : Cardinality({i \in DOMAIN d : d[i] > Len(core)}) <= MaxOdd}}

\* <div title=t a>  </div>  <script>  </script>  x
CorePieces ==
    << <<"<","d","i","v"," ","t","i","t","l","e","=","t"," ","a",">">>,
       <<"<","/","d","i","v",">">>,
       <<"<","s","c","r","i","p","t",">">>, <<"<","/","s","c","r","i","p","t",">">>,
       <<"x">> >>

\* <p>  </p>  <br>  <img>  <script/>  <!--c-->  <!--  <  </ DIV >
OddPieces ==
    << <<"<","p",">">>, <<"<","/","p",">">>, <<"<","b","r",">">>, <<"<","i","m","g",">">>,
       <<"<","s","c","r","i","p","t","/",">">>,
       <<"<","!","-","-","c","-","-",">">>, <<"<","!","-","-">>, <<"<">>,
       <<"<","/"," ","D","I","V"," ",">">> >>

\* div, p and br allowed, title allowed on div, no callback
BasePolicy ==
    [allowedTags |-> {div, tagP, br},
     allowedAttributes |-> (div :> {title}),
     allowedClasses |-> <<>>,
     allowedSchemes |-> { <<"h","t","t","p">> },
     filter |-> "null",
     transformText |-> "null"]

\* the same with the accept-predicate (token) => token.tag !== "div"
FilterPolicy == [BasePolicy EXCEPT !.filter = "notDiv"]

Policies == {BasePolicy, FilterPolicy}

tagA == <<"a">>
href == <<"h","r","e","f">>
src == <<"s","r","c">>
http == <<"h","t","t","p">>

\* <a href=  >  http:  javascript:  x
AttrCorePieces ==
    << <<"<","a"," ","h","r","e","f","=">>, <<">">>, <<"h","t","t","p",":">>,
       <<"j","a","v","a","s","c","r","i","p","t",":">>, <<"x">> >>

\* ?  &#106;avascript&#58;  <a SRC=  (space)title=  (space)onclick=
\* (space)id class="ok no"  </a>  <!--c-->
AttrOddPieces ==
    << <<"?">>,
       <<"&","#","1","0","6",";","a","v","a","s","c","r","i","p","t","&","#","5","8",";">>,
       <<"<","a"," ","S","R","C","=">>,
       <<" ","t","i","t","l","e","=">>,
       <<" ","o","n","c","l","i","c","k","=">>,
       <<" ","i","d"," ","c","l","a","s","s","=","\"","o","k"," ","n","o","\"">>,
       <<"<","/","a",">">>,
       <<"<","!","-","-","c","-","-",">">> >>

\* a allowed with href and title, the class ok allowed on a, scheme http
AttrPolicy ==
    [allowedTags |-> {tagA},
     allowedAttributes |-> (tagA :> {href, title}),
     allowedClasses |-> (tagA :> { <<"o","k">> }),
     allowedSchemes |-> {http},
     filter |-> "null",
     transformText |-> "null"]

\* the same with class and src allowed on every tag
ClassAttrPolicy == [AttrPolicy EXCEPT !.allowedAttributes = @ @@ (star :> {class, src})]

AttrPolicies == {AttrPolicy, ClassAttrPolicy}

constructor == <<"c","o","n","s","t","r","u","c","t","o","r">>

\* <constructor a>  </constructor>  x  <div title=t a>  <!--c-->
ProtoPieces ==
    << <<"<","c","o","n","s","t","r","u","c","t","o","r"," ","a",">">>,
       <<"<","/","c","o","n","s","t","r","u","c","t","o","r",">">>,
       <<"x">>,
       <<"<","d","i","v"," ","t","i","t","l","e","=","t"," ","a",">">>,
       <<"<","!","-","-","c","-","-",">">> >>

\* a policy whose allowedTags names a tag called constructor
ProtoPolicy == [BasePolicy EXCEPT !.allowedTags = {div, constructor}]

InitWith(inputs, policies) ==
    /\ html \in inputs
    /\ options \in policies
    /\ remaining = html
    /\ last = html
    /\ stack = <<>>
    /\ buffer = <<>>
    /\ context = reset
    /\ pc = "loop"
    /\ emitted = <<>>
    /\ calls = 0
    /\ events = <<>>
    /\ cursors = <<>>
    /\ iterations = 0
    /\ pass = 1
    /\ first = <<>>
    /\ args = [options |-> Supplied(options), strict |-> "true"]
    /\ native = "absent"

Init == InitWith(InputsFrom(CorePieces, OddPieces), Policies)

Next ==
    \/ ParseComment
    \/ ParseEndTagMatch
    \/ ParseStartTagMatch
    \/ ParseTagDecode
    \/ CleanUp

Spec == Init /\ [][Next]_vars


\* start tags with attributes, under the attribute policies
InitAttr == InitWith(InputsFrom(AttrCorePieces, AttrOddPieces), AttrPolicies)

SpecAttr == InitAttr /\ [][Next]_vars

\* a tag named like a property of Object.prototype, allowed by the policy
InitProto == InitWith(InputsFrom(ProtoPieces, <<>>), {ProtoPolicy})

SpecProto == InitProto /\ [][Next]_vars

\* a call without callbacks, and a second call on its output
InitIdem == InitWith(InputsFrom(CorePieces, OddPieces), {BasePolicy})

NextIdem == Next \/ Resanitize

SpecIdem == InitIdem /\ [][NextIdem]_vars

\* <p>  <p/>  </p>  <br>  x
UnaryCorePieces ==
    << <<"<","p",">">>, <<"<","p","/",">">>, <<"<","/","p",">">>, <<"<","b","r",">">>, <<"x">> >>

\* <BR/>  <img>  <img/>  <script/>  <P / >  <p a=/>  <p a="/">  <br />  <script>
\* <!--c-->
UnaryOddPieces ==
    << <<"<","B","R","/",">">>, <<"<","i","m","g",">">>, <<"<","i","m","g","/",">">>,
       <<"<","s","c","r","i","p","t","/",">">>,
       <<"<","P"," ","/"," ",">">>,
       <<"<","p"," ","a","=","/",">">>,
       <<"<","p"," ","a","=","\"","/","\"",">">>,
       <<"<","b","r"," ","/",">">>,
       <<"<","s","c","r","i","p","t",">">>,
       <<"<","!","-","-","c","-","-",">">> >>

\* self-closed and void tags, allowed and not
InitUnary == InitWith(InputsFrom(UnaryCorePieces, UnaryOddPieces), {BasePolicy})

SpecUnary == InitUnary /\ [][Next]_vars

javascript == <<"j","a","v","a","s","c","r","i","p","t">>

\* http:  javascript:  JAVASCRIPT:  (space)  x  ?  #  /  :
UrlPieces ==
    << <<"h","t","t","p",":">>, <<"j","a","v","a","s","c","r","i","p","t",":">>,
       <<"J","A","V","A","S","C","R","I","P","T",":">>,
       <<" ">>, <<"x">>, <<"?">>, <<"#">>, <<"/">>, <<":">> >>

\* allowedSchemes lists: none, one scheme, two schemes, and an entry
\* written with its colon
UrlSchemeLists == { {}, {http}, {http, javascript}, { <<"h","t","t","p",":">> } }

UrlPolicies == {[BasePolicy EXCEPT !.allowedSchemes = S] : S \in UrlSchemeLists}

\* a lone call testUrl(html) under the policy: pc is "call" before it and
\* "accepted" or "rejected", its result, after it
InitUrl ==
    /\ html \in InputsFrom(UrlPieces, <<>>)
    /\ options \in UrlPolicies
    /\ remaining = <<>>
    /\ last = <<>>
    /\ stack = <<>>
    /\ buffer = <<>>
    /\ context = reset
    /\ pc = "call"
    /\ emitted = <<>>
    /\ calls = 0
    /\ events = <<>>
    /\ cursors = <<>>
    /\ iterations = 0
    /\ pass = 1
    /\ first = <<>>
    /\ args = [options |-> Supplied(options), strict |-> "true"]
    /\ native = "absent"

TestUrl ==
    /\ pc = "call"
    /\ pc' = IF testUrl(options, html) THEN "accepted" ELSE "rejected"
    /\ UNCHANGED <<html, options, remaining, last, stack, buffer, context, emitted,
                   calls, events, cursors, iterations, pass, first, args, native>>

NextUrl == TestUrl

SpecUrl == InitUrl /\ [][NextUrl]_vars

\* <a  >  (space)class="ok no fine"  (space)title=&lt;&quot;
\* (space)href=&#106;avascript&#58;
ValueCorePieces ==
    << <<"<","a">>, <<">">>,
       <<" ","c","l","a","s","s","=","\"","o","k"," ","n","o"," ","f","i","n","e","\"">>,
       <<" ","t","i","t","l","e","=","&","l","t",";","&","q","u","o","t",";">>,
       <<" ","h","r","e","f","=","&","#","1","0","6",";","a","v","a","s","c","r","i","p","t",
         "&","#","5","8",";">> >>

\* (space)class  (space)class=no  (space)CLASS="fine  ok "
\* (space)href=javascript&#58;x  (space)href=http&#58;x
\* (space)title='"'  (space)title=&gt;  (space)title=&amp;lt;  </a>  <!--c-->
ValueOddPieces ==
    << <<" ","c","l","a","s","s">>,
       <<" ","c","l","a","s","s","=","n","o">>,
       <<" ","C","L","A","S","S","=","\"","f","i","n","e"," "," ","o","k"," ","\"">>,
       <<" ","h","r","e","f","=","j","a","v","a","s","c","r","i","p","t","&","#","5","8",";","x">>,
       <<" ","h","r","e","f","=","h","t","t","p","&","#","5","8",";","x">>,
       <<" ","t","i","t","l","e","=","'","\"","'">>,
       <<" ","t","i","t","l","e","=","&","g","t",";">>,
       <<" ","t","i","t","l","e","=","&","a","m","p",";","l","t",";">>,
       <<"<","/","a",">">>,
       <<"<","!","-","-","c","-","-",">">> >>

\* a allowed with href and title, the classes ok and fine allowed on a
ValuePolicy == [AttrPolicy EXCEPT !.allowedClasses = (tagA :> { <<"o","k">>, <<"f","i","n","e">> })]

\* the same with class an allowed attribute of every tag
ValueClassPolicy == [ValuePolicy EXCEPT !.allowedAttributes = @ @@ (star :> {class})]

\* attribute values with entities and class lists
InitValue == InitWith(InputsFrom(ValueCorePieces, ValueOddPieces), {ValuePolicy, ValueClassPolicy})

SpecValue == InitValue /\ [][Next]_vars

\* <div title=t a>  </div>  <p>  x  <script>
CallbackCorePieces ==
    << <<"<","d","i","v"," ","t","i","t","l","e","=","t"," ","a",">">>,
       <<"<","/","d","i","v",">">>, <<"<","p",">">>, <<"x">>,
       <<"<","s","c","r","i","p","t",">">> >>

\* </p>  </script>  <br>  <DIV>  <p title=1>  &lt;b  <!--c-->
CallbackOddPieces ==
    << <<"<","/","p",">">>, <<"<","/","s","c","r","i","p","t",">">>, <<"<","b","r",">">>,
       <<"<","D","I","V",">">>,
       <<"<","p"," ","t","i","t","l","e","=","1",">">>,
       <<"&","l","t",";","b">>,
       <<"<","!","-","-","c","-","-",">">> >>

\* the text-transform (text) => text.toUpperCase(), no accept-predicate
UpperPolicy == [BasePolicy EXCEPT !.transformText = "toUpperCase"]

\* the accept-predicate
\* (token) => token.tag !== 'div' || token.attrs.title !== undefined,
\* no text-transform
TitledDivPolicy == [BasePolicy EXCEPT !.filter = "divHasTitle"]

\* calls with a text-transform only and with an accept-predicate only
InitCallback ==
    InitWith(InputsFrom(CallbackCorePieces, CallbackOddPieces),
             {UpperPolicy, TitledDivPolicy})

SpecCallback == InitCallback /\ [][Next]_vars

\* <!-- outer <!-- inner --> -->
NestedComment ==
    <<"<","!","-","-"," ","o","u","t","e","r"," ","<","!","-","-"," ","i","n","n","e","r"," ",
      "-","-",">"," ","-","-",">">>

\* <p>  </p>  x  <!--  (space)-->
FragmentCorePieces ==
    << <<"<","p",">">>, <<"<","/","p",">">>, <<"x">>, <<"<","!","-","-">>,
       <<" ","-","-",">">> >>

\* <!-- outer <!-- inner --> -->  <!-->  <br  <img src="x"  <div title="<b">
\* <script>  </p  a>b  <!--c-->  &lt;y
FragmentOddPieces ==
    << NestedComment,
       <<"<","!","-","-",">">>,
       <<"<","b","r">>,
       <<"<","i","m","g"," ","s","r","c","=","\"","x","\"">>,
       <<"<","d","i","v"," ","t","i","t","l","e","=","\"","<","b","\"",">">>,
       <<"<","s","c","r","i","p","t",">">>,
       <<"<","/","p">>,
       <<"a",">","b">>,
       <<"<","!","-","-","c","-","-",">">>,
       <<"&","l","t",";","y">> >>

\* comments, and fragments of tags, among allowed and rejected elements
InitFragment == InitWith(InputsFrom(FragmentCorePieces, FragmentOddPieces), {BasePolicy})

SpecFragment == InitFragment /\ [][Next]_vars

\* <div title>  <div title="a">  <div title='a'>  <div title=a>  <div title="">
QuoteCorePieces ==
    << <<"<","d","i","v"," ","t","i","t","l","e",">">>,
       <<"<","d","i","v"," ","t","i","t","l","e","=","\"","a","\"",">">>,
       <<"<","d","i","v"," ","t","i","t","l","e","=","'","a","'",">">>,
       <<"<","d","i","v"," ","t","i","t","l","e","=","a",">">>,
       <<"<","d","i","v"," ","t","i","t","l","e","=","\"","\"",">">> >>

\* <div title=''>  <div title=>  <DIV TITLE = 'a' >  <div title='"'>
\* <div id title>  <div title a=b>  <div title="a b" id>  </div>  x  <!--c-->
QuoteOddPieces ==
    << <<"<","d","i","v"," ","t","i","t","l","e","=","'","'",">">>,
       <<"<","d","i","v"," ","t","i","t","l","e","=",">">>,
       <<"<","D","I","V"," ","T","I","T","L","E"," ","="," ","'","a","'"," ",">">>,
       <<"<","d","i","v"," ","t","i","t","l","e","=","'","\"","'",">">>,
       <<"<","d","i","v"," ","i","d"," ","t","i","t","l","e",">">>,
       <<"<","d","i","v"," ","t","i","t","l","e"," ","a","=","b",">">>,
       <<"<","d","i","v"," ","t","i","t","l","e","=","\"","a"," ","b","\""," ","i","d",">">>,
       <<"<","/","d","i","v",">">>,
       <<"x">>,
       <<"<","!","-","-","c","-","-",">">> >>

\* one allowed attribute, written without a value and with a value in
\* each quoting
InitQuote == InitWith(InputsFrom(QuoteCorePieces, QuoteOddPieces), {BasePolicy})

SpecQuote == InitQuote /\ [][Next]_vars

\* ------------------------------------------------------------------------
\* insane(html, options, strict): option resolution, the native path and
\* the fallback
\* ------------------------------------------------------------------------

\* <div title=t a>  x  </div>
InsaneCorePieces ==
    << <<"<","d","i","v"," ","t","i","t","l","e","=","t"," ","a",">">>,
       <<"x">>,
       <<"<","/","d","i","v",">">> >>

\* <constructor a>  <!--c-->
InsaneOddPieces ==
    << <<"<","c","o","n","s","t","r","u","c","t","o","r"," ","a",">">>,
       <<"<","!","-","-","c","-","-",">">> >>

tel == <<"t","e","l">>

\* the arguments of the calls: no options, one field supplied, with strict
\* true and not true
InsaneArgs ==
    { [options |-> NoOptions, strict |-> "undefined"],
      [options |-> NoOptions, strict |-> "true"],
      [options |-> Supplied([allowedTags |-> {div}]), strict |-> "true"],
      [options |-> Supplied([allowedTags |-> {div}]), strict |-> "false"],
      [options |-> Supplied([allowedTags |-> {div, constructor},
                             allowedAttributes |-> (div :> {title})]), strict |-> "true"],
      [options |-> Supplied([filter |-> "throws"]), strict |-> "undefined"],
      [options |-> Supplied([transformText |-> "throws"]), strict |-> "undefined"],
      [options |-> Supplied([allowedSchemes |-> {http, javascript}]), strict |-> "false"],
      [options |-> Supplied([allowedSchemes |-> {http, tel}]), strict |-> "false"],
      [options |-> Supplied([allowedClasses |-> (tagA :> {<<"o","k">>})]), strict |-> "undefined"],
      [options |-> Supplied([allowedClasses |-> (tagA :> {})]), strict |-> "undefined"] }

\* the strings sanitizeNative is seen to return
NativeResults == {<<>>, <<"x">>}

\* isNativeAvailable()
isNativeAvailable == native = "present"

\* insane is entered: nothing is resolved yet
InitInsane ==
    /\ html \in InputsFrom(InsaneCorePieces, InsaneOddPieces)
    /\ args \in InsaneArgs
    /\ native \in {"absent", "present"}
    /\ options = defaults
    /\ remaining = html
    /\ last = html
    /\ stack = <<>>
    /\ buffer = <<>>
    /\ context = reset
    /\ pc = "insane"
    /\ emitted = <<>>
    /\ calls = 0
    /\ events = <<>>
    /\ cursors = <<>>
    /\ iterations = 0
    /\ pass = 1
    /\ first = <<>>

\* insane: the native path is taken and sanitizeNative returns
InsaneNativeReturns ==
    /\ pc = "insane"
    /\ LET resolved == resolveOptions(args.options, args.strict)
       IN  /\ isNativeAvailable /\ canUseNative(resolved)
           /\ options' = resolved
    /\ \E result \in NativeResults : buffer' = <<result>>
    /\ native' = "returned"
    /\ pc' = "done"
    /\ UNCHANGED <<html, remaining, last, stack, context, emitted, calls, events,
                   cursors, iterations, pass, first, args>>

\* insane: the native path is taken, sanitizeNative throws and the catch
\* clause falls through to sanitizeFallback
InsaneNativeThrows ==
    /\ pc = "insane"
    /\ LET resolved == resolveOptions(args.options, args.strict)
       IN  /\ isNativeAvailable /\ canUseNative(resolved)
           /\ options' = resolved
    /\ native' = "failed"
    /\ pc' = "loop"
    /\ UNCHANGED <<html, remaining, last, stack, buffer, context, emitted, calls,
                   events, cursors, iterations, pass, first, args>>

\* insane: the native path is not taken, sanitizeFallback is entered
InsaneFallback ==
    /\ pc = "insane"
    /\ LET resolved == resolveOptions(args.options, args.strict)
       IN  /\ ~(isNativeAvailable /\ canUseNative(resolved))
           /\ options' = resolved
    /\ pc' = "loop"
    /\ UNCHANGED <<html, remaining, last, stack, buffer, context, emitted, calls,
                   events, cursors, iterations, pass, first, args, native>>

NextInsane ==
    \/ InsaneNativeReturns
    \/ InsaneNativeThrows
    \/ InsaneFallback
    \/ Next

SpecInsane == InitInsane /\ [][NextInsane]_vars

\* ------------------------------------------------------------------------
\* Self-closed tags the accept-predicate rejects, inside accepted elements
\* ------------------------------------------------------------------------

\* <div title=t a>  </div>  <p>  x
NestingCorePieces ==
    << <<"<","d","i","v"," ","t","i","t","l","e","=","t"," ","a",">">>,
       <<"<","/","d","i","v",">">>, <<"<","p",">">>, <<"x">> >>

\* <script><script>x</script></script>
NestedScript ==
    <<"<","s","c","r","i","p","t",">","<","s","c","r","i","p","t",">","x",
      "<","/","s","c","r","i","p","t",">","<","/","s","c","r","i","p","t",">">>

\* <div/>  <div>  <script/>  <script>  </p>  <!--c-->  </script>
\* <script><script>x</script></script>
NestingOddPieces ==
    << <<"<","d","i","v","/",">">>, <<"<","d","i","v",">">>,
       <<"<","s","c","r","i","p","t","/",">">>, <<"<","s","c","r","i","p","t",">">>,
       <<"<","/","p",">">>,
       <<"<","!","-","-","c","-","-",">">>,
       <<"<","/","s","c","r","i","p","t",">">>,
       NestedScript >>

InitNesting ==
    InitWith(InputsFrom(NestingCorePieces, NestingOddPieces), {BasePolicy, TitledDivPolicy})

SpecNesting == InitNesting /\ [][Next]_vars

\* ------------------------------------------------------------------------
\* Openers that form no token, and tag names that start with a digit
\* ------------------------------------------------------------------------

\* <div title=t a>  x  </div>
MalformedCorePieces ==
    << <<"<","d","i","v"," ","t","i","t","l","e","=","t"," ","a",">">>,
       <<"x">>,
       <<"<","/","d","i","v",">">> >>

\* <>  <<div>  <!DOCTYPE html>  <!--  </ >  </p  </div x>  <1div>  </1div>
\* <br  <!--c-->  <p>
MalformedOddPieces ==
    << <<"<",">">>,
       <<"<","<","d","i","v",">">>,
       <<"<","!","D","O","C","T","Y","P","E"," ","h","t","m","l",">">>,
       <<"<","!","-","-">>,
       <<"<","/"," ",">">>,
       <<"<","/","p">>,
       <<"<","/","d","i","v"," ","x",">">>,
       <<"<","1","d","i","v",">">>,
       <<"<","/","1","d","i","v",">">>,
       <<"<","b","r">>,
       <<"<","!","-","-","c","-","-",">">>,
       <<"<","p",">">> >>

digitName == <<"1","d","i","v">>

\* a policy whose allowedTags names a tag that starts with a digit
DigitPolicy == [BasePolicy EXCEPT !.allowedTags = @ \cup {digitName}]

InitMalformed ==
    InitWith(InputsFrom(MalformedCorePieces, MalformedOddPieces), {BasePolicy, DigitPolicy})

SpecMalformed == InitMalformed /\ [][Next]_vars

\* ------------------------------------------------------------------------
\* Several attributes on a tag, with names of every kind the lexer accepts
\* ------------------------------------------------------------------------

\* <div id title>  </div>  x
OrderCorePieces ==
    << <<"<","d","i","v"," ","i","d"," ","t","i","t","l","e",">">>,
       <<"<","/","d","i","v",">">>,
       <<"x">> >>

\* <div 2 1>  <div title 1 id>  <div id title id=a>  <div x:y _z a-b>
\* <div 01 1>  <div title=b a id=a>  <div 10 2 b>  <!--c-->
OrderOddPieces ==
    << <<"<","d","i","v"," ","2"," ","1",">">>,
       <<"<","d","i","v"," ","t","i","t","l","e"," ","1"," ","i","d",">">>,
       <<"<","d","i","v"," ","i","d"," ","t","i","t","l","e"," ","i","d","=","a",">">>,
       <<"<","d","i","v"," ","x",":","y"," ","_","z"," ","a","-","b",">">>,
       <<"<","d","i","v"," ","0","1"," ","1",">">>,
       <<"<","d","i","v"," ","t","i","t","l","e","=","b"," ","a"," ","i","d","=","a",">">>,
       <<"<","d","i","v"," ","1","0"," ","2"," ","b",">">>,
       <<"<","!","-","-","c","-","-",">">> >>

\* div allowed, with every attribute name of the inputs but `a` allowed on
\* every tag
OrderPolicy ==
    [allowedTags |-> {div},
     allowedAttributes |->
         (star :> {title, <<"i","d">>, <<"b">>, <<"1">>, <<"2">>, <<"1","0">>, <<"0","1">>,
                   <<"x",":","y">>, <<"_","z">>, <<"a","-","b">>}),
     allowedClasses |-> <<>>,
     allowedSchemes |-> {},
     filter |-> "null",
     transformText |-> "null"]

InitOrder == InitWith(InputsFrom(OrderCorePieces, OrderOddPieces), {OrderPolicy})

SpecOrder == InitOrder /\ [][Next]_vars

\* ------------------------------------------------------------------------
\* Tags whose interior is not well-formed attribute syntax
\* ------------------------------------------------------------------------

\* <div title=  <div title  >  x
LexerCorePieces ==
    << <<"<","d","i","v"," ","t","i","t","l","e","=">>,
       <<"<","d","i","v"," ","t","i","t","l","e">>,
       <<">">>,
       <<"x">> >>

\* "a b  'a"  a b  (space)=(space)  ?!  <div ="title"  <div =title
\* "a" title  <!--c-->  </div>  /
LexerOddPieces ==
    << <<"\"","a"," ","b">>,
       <<"'","a","\"">>,
       <<"a"," ","b">>,
       <<" ","="," ">>,
       <<"?","!">>,
       <<"<","d","i","v"," ","=","\"","t","i","t","l","e","\"">>,
       <<"<","d","i","v"," ","=","t","i","t","l","e">>,
       <<"\"","a","\""," ","t","i","t","l","e">>,
       <<"<","!","-","-","c","-","-",">">>,
       <<"<","/","d","i","v",">">>,
       <<"/">> >>

\* start tags cut off after the '=', after the name and inside a quoted
\* value, and with punctuation where a name is expected
InitLexer == InitWith(InputsFrom(LexerCorePieces, LexerOddPieces), {BasePolicy})

SpecLexer == InitLexer /\ [][Next]_vars

\* ------------------------------------------------------------------------
\* Two calls, one after the other
\* ------------------------------------------------------------------------

\* <script>  x  <div>
CallsCorePieces ==
    << <<"<","s","c","r","i","p","t",">">>, <<"x">>, <<"<","d","i","v",">">> >>

\* <script/>  <img/>  </script>  <!--c-->  <div title=a>
CallsOddPieces ==
    << <<"<","s","c","r","i","p","t","/",">">>,
       <<"<","i","m","g","/",">">>,
       <<"<","/","s","c","r","i","p","t",">">>,
       <<"<","!","-","-","c","-","-",">">>,
       <<"<","d","i","v"," ","t","i","t","l","e","=","a",">">> >>

\* a first call that may end with elements open and with suppression on,
\* then a second call
InitCalls == InitWith(InputsFrom(CallsCorePieces, CallsOddPieces), Policies)

NextCalls == Next \/ SanitizeAgain

SpecCalls == InitCalls /\ [][NextCalls]_vars

\* ------------------------------------------------------------------------
\* What the history variables say
\* ------------------------------------------------------------------------

RECURSIVE RenderAttrs(_)
RenderAttrs(attrs) ==
    IF attrs = <<>> THEN <<>>
    ELSE <<" ">> \o attrs[1].name
         \o (IF attrs[1].has THEN <<"=", "\"">> \o encode(attrs[1].value) \o <<"\"">> ELSE <<>>)
         \o RenderAttrs(Tail(attrs))

RECURSIVE Render(_)
\* the text of the tags and texts of an emitted log
Render(log) ==
    IF log = <<>> THEN <<>>
    ELSE LET e == log[1]
         IN  (CASE e.kind = "start" ->
                     <<"<">> \o e.tag \o RenderAttrs(e.attrs)
                     \o (IF e.unary THEN <<"/", ">">> ELSE <<">">>)
                [] e.kind = "end" -> <<"<", "/">> \o e.tag \o <<">">>
                [] OTHER -> e.text)
             \o Render(Tail(log))

\* the output, buffer.join("")
Output == Join(buffer)

\* the emitted log is what the output holds (an error leaves a start tag
\* half written, and no output is returned)
OutputIsEmitted == pc # "thrown" => Output = Render(emitted)

Passing == context.ignoring = NotIgnoring

\* event i is a start tag that arrived while Passing and was rejected
Rejected(i) ==
    /\ events[i].kind = "start"
    /\ events[i].passingBefore
    /\ events[i].wrote = 0

\* the index of the end tag of the element start tag i opened; past the
\* events when it has none (yet)
CloseOf(i) ==
    LET K == {k \in (i + 1)..Len(events) :
                 events[k].kind = "end" /\ events[k].level = events[i].level}
    IN  IF events[i].unary \/ K = {} THEN Len(events) + 1 ELSE Min(K)

\* ------------------------------------------------------------------------
\* Claims
\* ------------------------------------------------------------------------

\* C1: the output is exactly the emitted tags and texts, and every start
\* tag and end tag written has a lower-case name that is in allowedTags.
C1_EmittedTagsAllowed ==
    /\ OutputIsEmitted
    /\ \A i \in DOMAIN emitted :
          emitted[i].kind \in {"start", "end"} =>
              /\ lowercase(emitted[i].tag) \in options.allowedTags
              /\ emitted[i].tag = lowercase(emitted[i].tag)

\* a finished call that rejected a start tag and wrote a start and an end tag
C1_Witness ==
    /\ pc = "done"
    /\ \E i \in DOMAIN events : Rejected(i) /\ events[i].tag = script
    /\ \E i, j \in DOMAIN emitted : emitted[i].kind = "start" /\ emitted[j].kind = "end"

\* C2: between a rejected start tag with a non-void name and the end tag of
\* its element (to the end of the stream when it has none) no token writes
\* anything: no text, no tag, no attribute.
C2_SuppressionComplete ==
    \A i \in DOMAIN events :
        Rejected(i) /\ ~isVoidElement(events[i].tag) =>
            \A j \in (i + 1)..(CloseOf(i) - 1) :
                j <= Len(events) => events[j].wrote = 0

\* a rejected element that held a text and an allowed start tag with an
\* allowed attribute and was closed by the auto-close of an outer end tag
C2_Witness ==
    /\ pc = "done"
    /\ \E i, j, t, k \in DOMAIN events :
          /\ Rejected(i) /\ i < j /\ i < t /\ j < k /\ t < k /\ k = CloseOf(i)
          /\ events[j].kind = "start" /\ events[j].tag \in options.allowedTags
          /\ \E n \in DOMAIN events[j].attrs : events[j].attrs[n].name = title
          /\ events[t].kind = "text" /\ events[t].text # <<>>
          /\ events[k - 1].kind = "end" /\ ~events[k].synthetic

\* C5: every iteration of the main loop strictly shortens the remaining
\* input (to empty when it made no progress), the loop runs at most
\* |input| + 1 times, the only other step is the return, and every pass of
\* the attribute lexer moves its cursor forward.
C5_Terminates ==
    /\ [][\/ Len(remaining') < Len(remaining) /\ iterations' = iterations + 1
          \/ remaining = <<>> /\ pc = "loop" /\ pc' = "done"]_vars
    /\ [](/\ iterations <= Len(html) + 1
          /\ \A n \in DOMAIN cursors : \A k \in 1..(Len(cursors[n]) - 1) :
                cursors[n][k] < cursors[n][k + 1])

\* a finished call that lexed two attributes and then discarded its input
C5_Witness ==
    /\ pc = "done"
    /\ last # <<>>
    /\ iterations >= 2
    /\ \E n \in DOMAIN cursors : Len(cursors[n]) >= 3

\* C8: the end tag of the element whose start tag entered suppression
\* leaves the filter Passing.
C8_LiftedAtClose ==
    \A i \in DOMAIN events :
        Rejected(i) /\ ~events[i].unary /\ CloseOf(i) <= Len(events) =>
            events[CloseOf(i)].passingAfter

\* C9: a rejected self-closing start tag (a trailing '/', or a void name)
\* leaves the filter Passing.
C9_SelfClosingRejected ==
    \A i \in DOMAIN events :
        Rejected(i) /\ events[i].unary => events[i].passingAfter

\* C10: when the loop is left, the clean-up delivers an end tag for every
\* element on the stack, innermost first, empties the stack, and writes the
\* closing tag of each allowed element that is not suppressed.
C10_ImplicitClose ==
    [][(pc = "loop" /\ pc' = "done") =>
          /\ stack' = <<>>
          /\ Len(events') = Len(events) + Len(stack)
          /\ SubSeq(events', 1, Len(events)) = events
          /\ \A n \in 1..Len(stack) :
                LET e == events'[Len(events) + n]
                IN  /\ e.kind = "end" /\ e.synthetic
                    /\ e.tag = stack[Len(stack) + 1 - n]
                    /\ (e.tag \in options.allowedTags /\ e.passingBefore) <=> e.wrote = 3
          /\ Join(buffer') = Join(buffer) \o Render(SubSeq(emitted', Len(emitted) + 1, Len(emitted')))
          /\ \A n \in (Len(emitted) + 1)..Len(emitted') : emitted'[n].kind = "end"]_vars

\* an input that ended in discarded input with two allowed elements open
C10_Witness ==
    /\ pc = "done"
    /\ last # <<>>
    /\ Len(events) >= 2
    /\ events[Len(events)].synthetic /\ events[Len(events)].wrote = 3
    /\ events[Len(events) - 1].synthetic /\ events[Len(events) - 1].wrote = 3


\* the reference of scheme soundness: fragment or path relative, or no
\* scheme, or an allowed scheme followed by ':'
UrlSound(value, schemes) ==
    LET colons == {i \in DOMAIN value : value[i] = ":"}
    IN  \/ value # <<>> /\ value[1] \in {"#", "/"}
        \/ colons = {}
        \/ \E i \in DOMAIN value : value[i] \in {"?", "#"} /\ \A c \in colons : i < c
        \/ \E scheme \in schemes : startsWith(value, scheme \o <<":">>)

\* the attributes allowed on a tag: its own list and the wildcard list
AllowedOn(tag) ==
    Lookup(options.allowedAttributes, tag).items \cup Lookup(options.allowedAttributes, star).items

\* C3: every emitted URL-bearing attribute that carries a value has a
\* decoded value that is scheme sound.
C3_SchemeSound ==
    /\ OutputIsEmitted
    /\ \A i \in DOMAIN emitted : \A n \in DOMAIN emitted[i].attrs :
          LET a == emitted[i].attrs[n]
          IN  isUriAttribute(lowercase(a.name)) /\ a.has => UrlSound(a.value, options.allowedSchemes)

\* a URL attribute emitted with an allowed scheme that a disallowed one follows
C3_Witness ==
    /\ pc = "done"
    /\ \E i \in DOMAIN emitted : \E n \in DOMAIN emitted[i].attrs :
          /\ emitted[i].attrs[n].name = href
          /\ emitted[i].attrs[n].value =
                <<"h","t","t","p",":","j","a","v","a","s","c","r","i","p","t",":">>

\* C4 as claimed: every emitted attribute name is in the tag's allowed
\* attributes or the wildcard ones.
C4_AttrsAllowed_Original ==
    \A i \in DOMAIN emitted : \A n \in DOMAIN emitted[i].attrs :
        lowercase(emitted[i].attrs[n].name) \in AllowedOn(emitted[i].tag)

\* C4, amended: every emitted attribute name is in the tag's allowed
\* attributes or the wildcard ones, or it is class with a non-empty value
\* made only of classes allowed on the tag.
C4_AttrsAllowed ==
    /\ OutputIsEmitted
    /\ \A i \in DOMAIN emitted : \A n \in DOMAIN emitted[i].attrs :
          LET a == emitted[i].attrs[n]
          IN  \/ lowercase(a.name) \in AllowedOn(emitted[i].tag)
              \/ /\ lowercase(a.name) = class
                 /\ a.has /\ a.value # <<>>
                 /\ \A c \in Range(split(a.value)) :
                       c \in Lookup(options.allowedClasses, emitted[i].tag).items

\* a tag the lexer gave three attributes, of which one was dropped, one
\* emitted as allowed and class emitted filtered
C4_Witness ==
    /\ pc = "done"
    /\ \E e \in DOMAIN events : events[e].kind = "start" /\ Len(events[e].attrs) = 3
    /\ \E i \in DOMAIN emitted :
          /\ Len(emitted[i].attrs) = 2
          /\ \E n \in DOMAIN emitted[i].attrs : emitted[i].attrs[n].name = href
          /\ \E n \in DOMAIN emitted[i].attrs :
                /\ emitted[i].attrs[n].name = class
                /\ emitted[i].attrs[n].value = <<"o","k">>
                /\ class \notin AllowedOn(emitted[i].tag)

\* C6: the output of a second call on the output of a first call, under
\* the same policy, is that output.
C6_Idempotent == (pc = "done" /\ pass = 2) => Output = first

\* C7: under a policy without callbacks no error leaves the call.
C7_NoFatalError ==
    (options.filter = "null" /\ options.transformText = "null") => pc # "thrown"

\* <div title=t a><p></div>
MismatchedInput == Join(<<CorePieces[1], OddPieces[1], CorePieces[2]>>)

\* C11: an end tag whose lower-case name is open delivers, in that order,
\* an end tag for every element from the top of the stack down to and
\* including the topmost element of that name, and pops exactly those.
C11_AutoClose ==
    [][LET match == MatchEndSimple(remaining)
           low == lowercase(match.tagName)
           M == {p \in DOMAIN stack : stack[p] = low}
       IN  (pc = "loop" /\ remaining # <<>> /\ match.ok /\ M # {}) =>
               LET top == CHOOSE p \in M : \A q \in M : q <= p
                   n == Len(stack) - top + 1
               IN  /\ stack' = SubSeq(stack, 1, top - 1)
                   /\ Len(events') = Len(events) + n
                   /\ SubSeq(events', 1, Len(events)) = events
                   /\ \A k \in 1..n :
                         LET e == events'[Len(events) + k]
                         IN  /\ e.kind = "end" /\ ~e.synthetic
                             /\ e.tag = stack[Len(stack) + 1 - k]]_vars

\* the end tag of the outer element closed the inner one first
C11_Witness ==
    /\ pc = "done"
    /\ html = MismatchedInput
    /\ Len(events) = 4
    /\ events[3].kind = "end" /\ events[3].tag = tagP /\ ~events[3].synthetic
    /\ events[4].kind = "end" /\ events[4].tag = div /\ ~events[4].synthetic
    /\ Output = <<"<","d","i","v"," ","t","i","t","l","e","=","\"","t","\"",">",
                  "<","p",">","<","/","p",">","<","/","d","i","v",">">>

\* <div title=t a></p>x
UnmatchedInput == Join(<<CorePieces[1], OddPieces[2], CorePieces[5]>>)

\* C12: an end tag whose name is not open is consumed and does nothing
\* else: no event, no output, the stack and the suppression state as they
\* were, and the loop goes on with the input after it.
C12_UnmatchedEndDropped ==
    [][LET match == MatchEndSimple(remaining)
           low == lowercase(match.tagName)
       IN  (pc = "loop" /\ remaining # <<>> /\ match.ok /\ low \notin Range(stack)) =>
               /\ stack' = stack
               /\ events' = events
               /\ buffer' = buffer
               /\ emitted' = emitted
               /\ context' = context
               /\ remaining' = SubSeq(remaining, match.length + 1, Len(remaining))
               /\ pc' = "loop"]_vars

\* an end tag of a name that was not open, between an open allowed
\* element and a text
C12_Witness ==
    /\ pc = "done"
    /\ html = UnmatchedInput
    /\ Len(events) = 3
    /\ events[2].kind = "text" /\ events[3].synthetic
    /\ Output = <<"<","d","i","v"," ","t","i","t","l","e","=","\"","t","\"",">",
                  "x","<","/","d","i","v",">">>

\* the text of a tag, between '<' and '>', ends with '/' (white space aside)
TrailingSlash(raw) ==
    \E k \in DOMAIN raw : raw[k] = "/" /\ \A j \in (k + 1)..Len(raw) : raw[j] \in Whitespace

\* C13: a start tag is delivered as unary exactly when it is written with
\* a trailing '/' or its lower-case name is a void element; it is pushed
\* on the stack exactly when it is not unary; an accepted tag is written
\* as `<name .../>` when unary and as `<name ...>` otherwise; the stack
\* holds only lower-case names that are not void.
C13_SelfClosing ==
    /\ [][(pc = "loop" /\ Len(events') = Len(events) + 1
                        /\ events'[Len(events')].kind = "start") =>
             LET e == events'[Len(events')]
                 close == Min({i \in DOMAIN remaining : remaining[i] = ">"})
                 raw == SubSeq(remaining, 2, close - 1)
             IN  /\ e.unary <=> (TrailingSlash(raw) \/ e.tag \in voidElements)
                 /\ e.tag = lowercase(e.tag)
                 /\ stack' = IF e.unary THEN stack ELSE Append(stack, e.tag)
                 /\ e.wrote > 0 =>
                       /\ Len(buffer') = Len(buffer) + e.wrote
                       /\ buffer'[Len(buffer) + 1] = <<"<">>
                       /\ buffer'[Len(buffer) + 2] = e.tag
                       /\ buffer'[Len(buffer')] = IF e.unary THEN <<"/", ">">> ELSE <<">">>]_vars
    /\ [](\A p \in DOMAIN stack :
              stack[p] = lowercase(stack[p]) /\ stack[p] \notin voidElements)

\* an accepted tag of each kind: open, self-closed with a name that is not
\* void, and void without a '/'
C13_Witness ==
    /\ pc = "done"
    /\ \E i, j, k \in DOMAIN events :
          /\ events[i].kind = "start" /\ ~events[i].unary /\ events[i].wrote = 3
          /\ events[j].kind = "start" /\ events[j].unary /\ events[j].tag = tagP
                                      /\ events[j].wrote = 3
          /\ events[k].kind = "start" /\ events[k].unary /\ events[k].tag = br
                                      /\ events[k].wrote = 3
    /\ \E n \in 1..(Len(buffer) - 1) :
          buffer[n] = tagP /\ buffer[n + 1] = <<"/", ">">>

\* the start tags the filter accepted, as delivered and as written
AcceptedStarts == SelectSeq(events, LAMBDA e : e.kind = "start" /\ e.wrote > 0)

EmittedStarts == SelectSeq(emitted, LAMBDA e : e.kind = "start")

\* the URL-bearing attribute names
UrlBearing ==
    { <<"h","r","e","f">>, <<"s","r","c">>, <<"c","i","t","e">>,
      <<"b","a","c","k","g","r","o","u","n","d">>, <<"l","o","n","g","d","e","s","c">>,
      <<"u","s","e","m","a","p">>, <<"b","a","s","e">> }

\* attribute a of a tag goes through the class filter
ClassPath(a, tag) == lowercase(a.name) = class /\ class \notin AllowedOn(tag)

\* C14: on an accepted tag, the attributes written, the class-filter path
\* aside, are exactly the delivered attributes whose lower-case name is
\* allowed on the tag or on every tag and which, when URL-bearing, have no
\* value or a value that passes testUrl; the tag itself is written whatever
\* happens to its attributes.
C14_AttributeDecision ==
    /\ OutputIsEmitted
    /\ Len(AcceptedStarts) = Len(EmittedStarts)
    /\ \A k \in DOMAIN AcceptedStarts :
          LET ev == AcceptedStarts[k]
              em == EmittedStarts[k]
          IN  /\ em.tag = ev.tag
              /\ {a \in Range(em.attrs) : ~ClassPath(a, ev.tag)}
                   = {a \in Range(ev.attrs) :
                         /\ ~ClassPath(a, ev.tag)
                         /\ lowercase(a.name) \in AllowedOn(ev.tag)
                         /\ lowercase(a.name) \in UrlBearing =>
                                (~a.has \/ testUrl(options, a.value))}

\* a tag with a URL attribute dropped for its scheme and another attribute kept
C14_Witness ==
    /\ pc = "done"
    /\ \E k \in DOMAIN AcceptedStarts :
          /\ Len(AcceptedStarts[k].attrs) = 2
          /\ \E n \in DOMAIN AcceptedStarts[k].attrs :
                /\ AcceptedStarts[k].attrs[n].name = href
                /\ AcceptedStarts[k].attrs[n].value =
                      <<"j","a","v","a","s","c","r","i","p","t",":">>
          /\ Len(EmittedStarts[k].attrs) = 1
          /\ EmittedStarts[k].attrs[1].name = title

\* the reference of URL-scheme validation
UrlReference(text, schemes) ==
    LET colons == {i \in DOMAIN text : text[i] = ":"}
    IN  IF text # <<>> /\ text[1] \in {"#", "/"} THEN TRUE
        ELSE IF colons = {} THEN TRUE
        ELSE IF \E i \in 1..(Min(colons) - 1) : text[i] \in {"?", "#"} THEN TRUE
        ELSE SubSeq(text, 1, Min(colons)) \in {scheme \o <<":">> : scheme \in schemes}

\* C15 as claimed: for every string and every allowedSchemes list, testUrl
\* is the reference.
C15_TestUrlReference_Original ==
    pc \in {"accepted", "rejected"} =>
        ((pc = "accepted") <=> UrlReference(html, options.allowedSchemes))

\* C15, amended: for every string and every allowedSchemes list whose
\* entries contain no ':', testUrl is the reference.
C15_TestUrlReference ==
    (pc \in {"accepted", "rejected"}
        /\ \A scheme \in options.allowedSchemes : ":" \notin Range(scheme)) =>
        ((pc = "accepted") <=> UrlReference(html, options.allowedSchemes))

\* the upper-case spelling of an allowed scheme was rejected
C15_Witness ==
    /\ pc = "rejected"
    /\ javascript \in options.allowedSchemes
    /\ \A scheme \in options.allowedSchemes : ":" \notin Range(scheme)
    /\ html = <<"J","A","V","A","S","C","R","I","P","T",":">>

\* the characters that end or open markup inside a double-quoted value
RawMarkup == {"\"", "<", ">"}

\* the text of a tag, between '<' and '>', is a name, a space and one
\* attribute name=value with an unquoted value
OneUnquoted(content) ==
    LET sp == {i \in DOMAIN content : content[i] = " "}
        eq == {i \in DOMAIN content : content[i] = "="}
    IN  /\ sp # {} /\ eq # {}
        /\ 1 < Min(sp) /\ Min(sp) + 1 < Min(eq) /\ Min(eq) < Len(content)
        /\ \A i \in 1..(Min(sp) - 1) : content[i] \in NameChars
        /\ \A i \in (Min(sp) + 1)..(Min(eq) - 1) : content[i] \in NameChars
        /\ \A i \in (Min(eq) + 1)..Len(content) :
              content[i] \notin Whitespace \cup {"\"", "'"}
        /\ content[Len(content)] # "/"

\* the tokenizer delivers decoded values: a tag with one unquoted attribute
\* is delivered with the decoding of the value's text
DeliversDecoded ==
    [][(pc = "loop" /\ Len(events') = Len(events) + 1
                    /\ events'[Len(events')].kind = "start") =>
         LET e == events'[Len(events')]
             close == Min({i \in DOMAIN remaining : remaining[i] = ">"})
             content == SubSeq(remaining, 2, close - 1)
             sp == Min({i \in DOMAIN content : content[i] = " "})
             eq == Min({i \in DOMAIN content : content[i] = "="})
         IN  OneUnquoted(content) =>
                 e.attrs = << [name |-> SubSeq(content, sp + 1, eq - 1), has |-> TRUE,
                               value |-> decode(SubSeq(content, eq + 1, Len(content)))] >>]_vars

\* what is written for a value is its encoding between double quotes, and
\* the encoding holds no raw '"', '<' or '>'
WritesEncoded ==
    /\ OutputIsEmitted
    /\ \A i \in DOMAIN emitted : \A n \in DOMAIN emitted[i].attrs :
          emitted[i].attrs[n].has =>
              Range(encode(emitted[i].attrs[n].value)) \cap RawMarkup = {}
    /\ \A n \in DOMAIN buffer :
          (n > 1 /\ n < Len(buffer) /\ buffer[n - 1] = <<"=", "\"">>) =>
              Range(buffer[n]) \cap RawMarkup = {} /\ buffer[n + 1] = <<"\"">>

\* C16 as claimed: the tokenizer delivers decoded values, validation sees
\* them, and every value written is the encoding of the decoded value.
C16_DecodeEncode_Original ==
    /\ WritesEncoded
    /\ Len(AcceptedStarts) = Len(EmittedStarts)
    /\ \A k \in DOMAIN AcceptedStarts :
          Range(EmittedStarts[k].attrs) \subseteq Range(AcceptedStarts[k].attrs)

\* C16, amended: the tokenizer delivers decoded values; a URL-bearing
\* attribute is written only if its decoded value passes testUrl; every
\* value written is the encoding, between double quotes, of the decoded
\* value, or on the class-filter path of the classes kept from it, and
\* holds no raw '"', '<' or '>'.
C16_DecodeEncode ==
    /\ DeliversDecoded
    /\ [](/\ WritesEncoded
          /\ Len(AcceptedStarts) = Len(EmittedStarts)
          /\ \A k \in DOMAIN AcceptedStarts :
                \A a \in Range(EmittedStarts[k].attrs) :
                    IF ClassPath(a, AcceptedStarts[k].tag)
                    THEN \E b \in Range(AcceptedStarts[k].attrs) :
                            /\ b.name = a.name /\ b.has /\ a.has
                            /\ Range(split(a.value)) \subseteq Range(split(b.value))
                    ELSE /\ a \in Range(AcceptedStarts[k].attrs)
                         /\ (lowercase(a.name) \in UrlBearing /\ a.has) =>
                                testUrl(options, a.value))

\* <a href=&#106;avascript&#58; title=&lt;&quot;>
EncodedSchemeInput ==
    Join(<<ValueCorePieces[1], ValueCorePieces[5], ValueCorePieces[4], ValueCorePieces[2]>>)

\* the entity-written scheme was seen decoded and the attribute dropped,
\* and the title was written encoded again
C16_Witness ==
    /\ pc = "done"
    /\ html = EncodedSchemeInput
    /\ events[1].attrs[1].value = <<"j","a","v","a","s","c","r","i","p","t",":">>
    /\ events[1].attrs[2].value = <<"<", "\"">>
    /\ Output = <<"<","a"," ","t","i","t","l","e","=","\"","&","l","t",";",
                  "&","q","u","o","t",";","\"",">","<","/","a",">">>

\* C17: a class attribute on the class-filter path is written exactly when
\* it has a value of which at least one space-separated token is in
\* allowedClasses[tag]; the value written is those tokens, in their order,
\* joined by single spaces, with no space before or after.
C17_ClassFilter ==
    /\ OutputIsEmitted
    /\ Len(AcceptedStarts) = Len(EmittedStarts)
    /\ \A k \in DOMAIN AcceptedStarts :
          \A a \in Range(AcceptedStarts[k].attrs) :
              ClassPath(a, AcceptedStarts[k].tag) =>
                  LET kept == SelectSeq(split(a.value), LAMBDA c :
                                  c \in Lookup(options.allowedClasses, AcceptedStarts[k].tag).items)
                      written == {b \in Range(EmittedStarts[k].attrs) : b.name = a.name}
                  IN  IF a.has /\ kept # <<>>
                      THEN /\ Cardinality(written) = 1
                           /\ \A b \in written :
                                 /\ b.has
                                 /\ split(b.value) = kept
                                 /\ b.value[1] # " " /\ b.value[Len(b.value)] # " "
                      ELSE written = {}

\* of three classes the two allowed ones were written, in their order
C17_Witness ==
    /\ pc = "done"
    /\ class \notin AllowedOn(tagA)
    /\ \E k \in DOMAIN AcceptedStarts :
          /\ \E a \in Range(AcceptedStarts[k].attrs) :
                a.name = class /\ a.value = <<"o","k"," ","n","o"," ","f","i","n","e">>
          /\ \E b \in Range(EmittedStarts[k].attrs) :
                b.name = class /\ b.value = <<"o","k"," ","f","i","n","e">>

\* C18: when class is an allowed attribute of the tag or of every tag, a
\* class attribute is written as it was delivered, whatever
\* allowedClasses[tag] holds.
C18_ClassAllowed ==
    /\ OutputIsEmitted
    /\ Len(AcceptedStarts) = Len(EmittedStarts)
    /\ \A k \in DOMAIN AcceptedStarts :
          class \in AllowedOn(AcceptedStarts[k].tag) =>
              \A a \in Range(AcceptedStarts[k].attrs) :
                  lowercase(a.name) = class => a \in Range(EmittedStarts[k].attrs)

\* a class list with a class outside allowedClasses, written whole
C18_Witness ==
    /\ pc = "done"
    /\ class \in AllowedOn(tagA)
    /\ <<"n","o">> \notin Lookup(options.allowedClasses, tagA).items
    /\ \E k \in DOMAIN EmittedStarts :
          \E b \in Range(EmittedStarts[k].attrs) :
              b.name = class /\ b.value = <<"o","k"," ","n","o"," ","f","i","n","e">>

\* C19: a start tag that arrives while Passing is accepted exactly when
\* its lower-case name is in allowedTags and no accept-predicate is
\* configured or the predicate returns true for the lower-case name and
\* the delivered attributes; the predicate is called once for a start tag
\* in allowedTags that arrives while Passing, and not for any other.
C19_AcceptDecision ==
    \A i \in DOMAIN events :
        events[i].kind = "start" =>
            LET e == events[i]
                inTags == e.tag \in options.allowedTags
                asked == e.passingBefore /\ inTags /\ options.filter # "null"
            IN  /\ e.tag = lowercase(e.tag)
                /\ e.called = IF asked THEN 1 ELSE 0
                /\ e.wrote > 0 <=>
                      /\ e.passingBefore
                      /\ inTags
                      /\ \/ options.filter = "null"
                         \/ CallFilter(options.filter, e.tag, e.attrs) = "true"

\* a div the predicate accepted for its title, a div spelled DIV it
\* rejected, and an allowed tag that arrived while Suppressing and was not
\* shown to the predicate
C19_Witness ==
    /\ pc = "done"
    /\ options.filter = "divHasTitle"
    /\ \E i, j, k \in DOMAIN events :
          /\ i < j /\ j < k
          /\ events[i].kind = "start" /\ events[i].wrote > 0 /\ events[i].called = 1
                                      /\ events[i].tag = div
          /\ events[j].kind = "start" /\ events[j].passingBefore /\ events[j].wrote = 0
                                      /\ events[j].called = 1
                                      /\ events[j].tag = div
          /\ events[k].kind = "start" /\ ~events[k].passingBefore
                                      /\ events[k].tag \in options.allowedTags
                                      /\ events[k].called = 0

\* what chars writes for a text: the text, or the text-transform of it
Written(text) ==
    IF options.transformText = "null" THEN text
    ELSE CallTransformText(options.transformText, text).text

\* C20: a text that arrives while Passing is written as it stands in the
\* input, or as the result of the text-transform, called once, when one is
\* configured; a text that arrives while Suppressing writes nothing and
\* the text-transform is not called.
C20_TextHandling ==
    /\ [][(pc = "loop" /\ remaining # <<>> /\ remaining[1] # "<") =>
             LET lt == {i \in DOMAIN remaining : remaining[i] = "<"}
                 text == IF lt = {} THEN remaining ELSE SubSeq(remaining, 1, Min(lt) - 1)
                 asked == Passing /\ options.transformText # "null"
             IN  /\ Len(events') = Len(events) + 1
                 /\ events'[Len(events')].kind = "text"
                 /\ events'[Len(events')].text = text
                 /\ buffer' = IF Passing THEN Append(buffer, Written(text)) ELSE buffer
                 /\ calls' = calls + (IF asked THEN 1 ELSE 0)]_vars
    /\ [](/\ OutputIsEmitted
          /\ \A i \in DOMAIN events :
                events[i].kind = "text" =>
                    /\ events[i].wrote = IF events[i].passingBefore THEN 1 ELSE 0
                    /\ events[i].called =
                          IF events[i].passingBefore /\ options.transformText # "null"
                          THEN 1 ELSE 0
          /\ LET passed == SelectSeq(events, LAMBDA e : e.kind = "text" /\ e.passingBefore)
                 texts == SelectSeq(emitted, LAMBDA e : e.kind = "text")
             IN  /\ Len(texts) = Len(passed)
                 /\ \A k \in DOMAIN passed : texts[k].text = Written(passed[k].text))

\* a text with an entity written through the text-transform, and a text
\* inside a rejected element for which the transform was not called
C20_Witness ==
    /\ pc = "done"
    /\ options.transformText = "toUpperCase"
    /\ calls = 1
    /\ \E i, j \in DOMAIN events :
          /\ events[i].kind = "text" /\ events[i].passingBefore
          /\ events[i].text = <<"&","l","t",";","b">> /\ events[i].called = 1
          /\ events[j].kind = "text" /\ ~events[j].passingBefore
          /\ events[j].text = <<"x">> /\ events[j].called = 0 /\ events[j].wrote = 0
    /\ Output = <<"&","L","T",";","B">>


\* the positions at which p occurs in s, 0-based
Occurrences(s, p) == {i \in 0..(Len(s) - Len(p)) : SubSeq(s, i + 1, i + Len(p)) = p}

\* C21: an iteration whose input starts with "<!--" consumes the input up
\* to and including the first "-->" and nothing more, and writes nothing;
\* without a "-->" it discards the input and adds nothing to the output;
\* the output never holds a comment opener.
C21_CommentsStripped ==
    /\ [][(pc = "loop" /\ startsWith(remaining, <<"<","!","-","-">>)) =>
             LET closers == Occurrences(remaining, <<"-","-",">">>)
             IN  /\ Join(buffer') = Join(buffer)
                 /\ stack' = stack
                 /\ context' = context
                 /\ IF closers = {} THEN remaining' = <<>>
                    ELSE /\ buffer' = buffer
                         /\ remaining' = SubSeq(remaining, Min(closers) + 4, Len(remaining))]_vars
    /\ [](Occurrences(Output, <<"<","!">>) = {})

\* the nested comment of the example: the first closer ends it, and what
\* follows is text
C21_Witness ==
    /\ pc = "done"
    /\ html = NestedComment
    /\ Len(events) = 2
    /\ events[1].kind = "comment"
    /\ events[1].text = <<" ","o","u","t","e","r"," ","<","!","-","-"," ","i","n","n","e","r"," ">>
    /\ events[2].kind = "text"
    /\ Output = <<" ","-","-",">">>


\* the value written after position i of raw (white space skipped): what a
\* pair of quotes encloses, or the characters up to the next white space
WrittenValue(raw, i) ==
    LET rest == SubSeq(raw, i + 1, Len(raw))
        lead == {k \in DOMAIN rest : rest[k] \notin Whitespace}
    IN  IF lead = {} THEN <<>>
        ELSE LET a == Min(lead)
                 q == rest[a]
             IN  IF q \in {"\"", "'"}
                 THEN LET E == {k \in (a + 1)..Len(rest) : rest[k] = q}
                      IN  SubSeq(rest, a + 1, IF E = {} THEN Len(rest) ELSE Min(E) - 1)
                 ELSE LET E == {k \in a..Len(rest) : rest[k] \in Whitespace}
                      IN  SubSeq(rest, a, IF E = {} THEN Len(rest) ELSE Min(E) - 1)

C23_NativeFallback ==
    native = "failed" =>
        /\ pc # "thrown"
        /\ pc = "done" => Output = sanitizeFallback(html, options).output

\* the native path is tried only when the native API is present and the
\* resolved policy o has no callback, no non-empty class list and no scheme
\* outside http, https, mailto, tel
NativeMayBeTried(o) ==
    /\ native = "present"
    /\ o.filter = "null"
    /\ o.transformText = "null"
    /\ \A tag \in DOMAIN o.allowedClasses : o.allowedClasses[tag] = {}
    /\ o.allowedSchemes \subseteq {http, <<"h","t","t","p","s">>,
                                   <<"m","a","i","l","t","o">>, <<"t","e","l">>}

\* C24: the native engine is called only when the native API is present
\* and the resolved policy has no accept-predicate, no text-transform, no
\* non-empty allowedClasses entry and no allowed scheme outside http, https,
\* mailto, tel; otherwise the core path is entered and the native engine is
\* not called, then or later.
C24_NativeEligibility ==
    [][/\ native' # native => pc = "insane" /\ NativeMayBeTried(options')
       /\ (pc = "insane" /\ ~NativeMayBeTried(options')) =>
              pc' = "loop" /\ native' = native /\ buffer' = <<>>]_vars

\* the native engine returned for a caller who supplied the schemes http
\* and tel
C24_Witness ==
    /\ native = "returned"
    /\ pc = "done"
    /\ args.options.defined
    /\ "allowedSchemes" \in DOMAIN args.options.fields
    /\ tel \in options.allowedSchemes

\* the input starts with a start tag whose lower-case name is allowed
AllowedStartTagAhead ==
    /\ rtag(remaining) /\ ~rtagend(remaining) /\ ~rcomment(remaining)
    /\ LET close == Occurrences(remaining, <<">">>)
       IN  /\ close # {}
           /\ LET parsed == parseStartTagContent(SubSeq(remaining, 2, Min(close)))
              IN  parsed.ok /\ lowercase(parsed.tagName) \in options.allowedTags

\* C25: an error raised by the accept-predicate, called for an allowed
\* start tag that arrives while Passing, or by the text-transform, called
\* for a text that arrives while Passing, leaves the call: nothing more is
\* written and no string is returned, then or later. The callback named
\* "throws" raises on every call.
C25_CallbackErrorsPropagate ==
    [][/\ (pc = "loop" /\ Passing /\ AllowedStartTagAhead
              /\ options.filter = "throws") =>
             pc' = "thrown" /\ buffer' = buffer
       /\ (pc = "loop" /\ Passing /\ remaining # <<>> /\ remaining[1] # "<"
              /\ options.transformText = "throws") =>
             pc' = "thrown" /\ buffer' = buffer
       /\ pc = "thrown" => pc' = "thrown"]_vars

\* the accept-predicate raised after a text had been written
C25_Witness ==
    /\ pc = "thrown"
    /\ options.filter = "throws"
    /\ Output = <<"x">>
    /\ calls = 1

\* the value the resolved policy is said to hold for a field: the one the
\* caller supplies, else the empty one under strict and the default one
\* otherwise
SaidToResolve(name, empty) ==
    IF args.options.defined /\ name \in DOMAIN args.options.fields
    THEN args.options.fields[name]
    ELSE IF args.strict = "true" THEN empty ELSE defaults[name]

\* C26: under strict every field of the resolved policy is the one the
\* caller supplies, or empty when the caller supplies none; otherwise every
\* field is the one the caller supplies, or the default when the caller
\* supplies none.
C26_OptionResolution ==
    pc # "insane" =>
        /\ options.allowedTags = SaidToResolve("allowedTags", {})
        /\ options.allowedAttributes = SaidToResolve("allowedAttributes", <<>>)
        /\ options.allowedClasses = SaidToResolve("allowedClasses", <<>>)
        /\ options.allowedSchemes = SaidToResolve("allowedSchemes", {})
        /\ options.filter = SaidToResolve("filter", "null")
        /\ options.transformText = SaidToResolve("transformText", "null")


\* the output holds, from the 0-based position i on, a start tag or an end
\* tag of an allowed element
TagOpensAt(i) ==
    \E tag \in options.allowedTags :
        LET rest == SubSeq(Output, i + 1, Len(Output))
            n == Len(tag)
        IN  \/ /\ startsWith(rest, <<"<">> \o tag)
               /\ Len(rest) > n + 1
               /\ rest[n + 2] \in {" ", ">", "/"}
            \/ startsWith(rest, <<"<", "/">> \o tag \o <<">">>)

\* C27: without a text-transform every '<' of the output is the first
\* character of a start tag or of an end tag of an allowed element, no text
\* delivered holds a '<', and an iteration whose input opens a tag and holds
\* no '>' discards that input and adds nothing to the output.
C27_LessThanOpensTag ==
    /\ [][(pc = "loop" /\ options.transformText = "null"
              /\ rtag(remaining) /\ Occurrences(remaining, <<">">>) = {}) =>
             Join(buffer') = Join(buffer) /\ remaining' = <<>> /\ stack' = stack]_vars
    /\ [](options.transformText = "null" =>
             /\ \A i \in Occurrences(Output, <<"<">>) : TagOpensAt(i)
             /\ \A i \in DOMAIN events :
                   events[i].kind = "text" => Occurrences(events[i].text, <<"<">>) = {})

\* an allowed element with a text and a trailing `<img src="x"` that left
\* nothing
C27_Witness ==
    /\ pc = "done"
    /\ html = <<"<","p",">","x">> \o FragmentOddPieces[4]
    /\ last = FragmentOddPieces[4]
    /\ Output = <<"<","p",">","x","<","/","p",">">>


RECURSIVE Nesting(_, _)
\* the written tags of log read in order from the open elements open on:
\* the elements left open, outermost first, and whether every end tag met
\* closed the innermost element open at that point
Nesting(log, open) ==
    IF log = <<>> THEN [open |-> open, ordered |-> TRUE]
    ELSE LET e == log[1]
         IN  IF e.kind = "start" /\ ~e.unary THEN Nesting(Tail(log), Append(open, e.tag))
             ELSE IF e.kind # "end" THEN Nesting(Tail(log), open)
             ELSE IF open # <<>> /\ open[Len(open)] = e.tag
             THEN Nesting(Tail(log), SubSeq(open, 1, Len(open) - 1))
             ELSE [Nesting(Tail(log), open) EXCEPT !.ordered = FALSE]

\* C28: when the call returns, every start tag written without "/>" has
\* been followed by its end tag: the output leaves no element open.
C28_Balanced == pc = "done" => OutputIsEmitted /\ Nesting(emitted, <<>>).open = <<>>

\* C29: every end tag written closes the innermost element that the output
\* has open at that point, and has its name.
C29_EndClosesInnermost == OutputIsEmitted /\ Nesting(emitted, <<>>).ordered


\* C30: a token that arrives while Suppressing(T, d) writes nothing; a
\* start tag named T leaves Suppressing(T, d + 1), an end tag named T leaves
\* Suppressing(T, d - 1), or Passing when d - 1 = 0, and every other token
\* leaves the context as it was.
C30_SuppressionTransitions ==
    \A i \in DOMAIN events :
        LET e == events[i]
            T == e.before.ignoring
            d == e.before.depth
        IN  T # NotIgnoring =>
                /\ e.wrote = 0
                /\ d >= 1
                /\ e.after =
                      IF e.kind = "start" /\ e.tag = T
                      THEN [ignoring |-> T, depth |-> d + 1]
                      ELSE IF e.kind = "end" /\ e.tag = T
                      THEN IF d - 1 = 0 THEN [ignoring |-> NotIgnoring, depth |-> 0]
                           ELSE [ignoring |-> T, depth |-> d - 1]
                      ELSE e.before

\* the nested script of the example inside an element: the inner end tag
\* leaves depth 1, the outer one lifts the suppression, and the text after
\* it is written
C30_Witness ==
    /\ pc = "done"
    /\ html = <<"<","p",">">> \o NestedScript \o <<"x">>
    /\ events[2].after = [ignoring |-> script, depth |-> 1]
    /\ events[3].after = [ignoring |-> script, depth |-> 2]
    /\ events[4].kind = "text" /\ events[4].after = events[4].before
    /\ events[5].after = [ignoring |-> script, depth |-> 1]
    /\ events[6].kind = "end" /\ events[6].passingAfter
    /\ Output = <<"<","p",">","x","<","/","p",">">>


\* a suppression context as it is said to be: Passing with depth 0, or
\* Suppressing a tag that is not a void element with a depth above 0
WellFormedContext(c) ==
    /\ c.depth >= 0
    /\ c.depth > 0 <=> c.ignoring # NotIgnoring
    /\ c.ignoring # NotIgnoring => ~isVoidElement(c.ignoring)

\* C31: in every state of a call, and before and after every token within
\* an iteration, depth > 0 exactly when a tag is ignored, depth is not
\* negative and the ignored tag is not a void element; the context is
\* {none, 0} when a call starts and whenever a token ends the suppression.
C31_ContextInvariant ==
    /\ WellFormedContext(context)
    /\ (pc = "loop" /\ iterations = 0) => context = reset
    /\ \A i \in DOMAIN events :
          /\ WellFormedContext(events[i].before)
          /\ WellFormedContext(events[i].after)
          /\ (events[i].before.ignoring # NotIgnoring /\ events[i].passingAfter) =>
                events[i].after = [ignoring |-> NotIgnoring, depth |-> 0]

\* a call that rejected a void tag without suppressing, then entered
\* suppression and ended it, and wrote the text after it
C31_Witness ==
    /\ pc = "done"
    /\ Output = <<"x">>
    /\ \E i, j, k \in DOMAIN events :
          /\ i < j /\ j < k
          /\ events[i].kind = "start" /\ isVoidElement(events[i].tag)
          /\ events[i].wrote = 0 /\ events[i].passingAfter
          /\ events[j].after.depth = 1
          /\ ~events[k].passingBefore /\ events[k].passingAfter


\* C32: between two iterations the stack is the sequence, outermost first,
\* of the start tags delivered without a unary flag that no end tag has
\* closed; every end tag delivered names the innermost of them at that
\* point; and when the call returns each of them has been closed once.
C32_TokensWellNested ==
    pc \in {"loop", "done"} =>
        /\ Nesting(events, <<>>).ordered
        /\ stack = Nesting(events, <<>>).open
        /\ pc = "done" => Nesting(events, <<>>).open = <<>>

\* an end tag that closed two elements, innermost first, and an element
\* the clean-up closed
C32_Witness ==
    /\ pc = "done"
    /\ \E i \in DOMAIN events :
          /\ i + 1 \in DOMAIN events
          /\ events[i].kind = "end" /\ ~events[i].synthetic /\ events[i].tag = script
          /\ events[i + 1].kind = "end" /\ ~events[i + 1].synthetic /\ events[i + 1].tag = div
    /\ events[Len(events)].kind = "end" /\ events[Len(events)].synthetic


\* the input starts with '<' and no token can be formed from it: a comment
\* opener without "-->", an end-tag opener that is not of the form </name>,
\* or a tag opener without '>' or without a name after the '<'
NoTokenAhead ==
    /\ rtag(remaining)
    /\ IF rcomment(remaining) THEN Occurrences(remaining, <<"-","-",">">>) = {}
       ELSE IF rtagend(remaining) THEN ~MatchEndSimple(remaining).ok
       ELSE LET close == Occurrences(remaining, <<">">>)
            IN  \/ close = {}
                \/ ~parseStartTagContent(SubSeq(remaining, 2, Min(close))).ok

\* C33: an iteration whose input starts with '<' and forms no token
\* discards the whole remaining input, writes no character and leaves the
\* stack and the context; what the call writes after the input is
\* exhausted are end tags of allowed elements that are still open.
C33_NoTokenDiscards ==
    [][/\ (pc = "loop" /\ NoTokenAhead) =>
             /\ remaining' = <<>>
             /\ Join(buffer') = Join(buffer)
             /\ stack' = stack /\ context' = context
             /\ pc' = "loop"
       /\ (pc = "loop" /\ remaining = <<>>) =>
             /\ pc' = "done"
             /\ Len(emitted') >= Len(emitted)
             /\ SubSeq(emitted', 1, Len(emitted)) = emitted
             /\ \A k \in (Len(emitted) + 1)..Len(emitted') :
                   /\ emitted'[k].kind = "end"
                   /\ emitted'[k].tag \in Range(stack) \cap options.allowedTags]_vars

\* text in an element, then `<!DOCTYPE html>` and what followed it
\* discarded, and the element closed
C33_Witness ==
    /\ pc = "done"
    /\ html = MalformedCorePieces[1] \o <<"x">> \o MalformedOddPieces[3] \o <<"x">>
    /\ last = MalformedOddPieces[3] \o <<"x">>
    /\ Output = <<"<","d","i","v"," ","t","i","t","l","e","=","\"","t","\"",">","x",
                  "<","/","d","i","v",">">>


\* the input starts with a tag opener and holds no '>'
OpenerWithoutClose == rtag(remaining) /\ Occurrences(remaining, <<">">>) = {}

\* C34 as stated: an iteration whose input starts with '<' and holds no
\* '>' delivers no start tag and delivers the rest of the input as a text.
C34_RestAsText_Original ==
    [][(pc = "loop" /\ OpenerWithoutClose) =>
          /\ Len(events') = Len(events) + 1
          /\ events'[Len(events')].kind = "text"
          /\ events'[Len(events')].text = remaining]_vars

\* C34: an iteration whose input starts with '<' and holds no '>' delivers
\* no start tag; it delivers one text, the empty one, and discards the rest
\* of the input, of which nothing is written.
C34_RestAsText ==
    [][(pc = "loop" /\ OpenerWithoutClose) =>
          /\ Len(events') = Len(events) + 1
          /\ SubSeq(events', 1, Len(events)) = events
          /\ events'[Len(events')].kind = "text"
          /\ events'[Len(events')].text = <<>>
          /\ remaining' = <<>>
          /\ Join(buffer') = Join(buffer)
          /\ stack' = stack]_vars

\* a text, then `<br` at the end of the input: an empty text was delivered
\* for it and nothing of it was written
C34_Witness ==
    /\ pc = "done"
    /\ html = <<"x","<","b","r">>
    /\ last = <<"<","b","r">>
    /\ Len(events) = 2
    /\ events[2].kind = "text" /\ events[2].text = <<>>
    /\ Output = <<"x">>


\* C35: a start tag whose name starts with a digit is not delivered as a
\* start tag and is not pushed on the stack, whatever the policy.
C35_DigitNameNotATag ==
    /\ \A i \in DOMAIN events :
          events[i].kind = "start" =>
              events[i].tag[1] \notin Digits
    /\ \A k \in DOMAIN stack :
          stack[k][1] \notin Digits


\* the place of the attribute named name in the sequence attrs
PlaceOf(attrs, name) == Min({k \in DOMAIN attrs : attrs[k].name = name})

\* C36: the attributes written on an accepted tag are among the delivered
\* ones and stand in the order in which the start tag of the input names
\* them.
C36_AttributeOrder ==
    /\ Len(AcceptedStarts) = Len(EmittedStarts)
    /\ \A k \in DOMAIN AcceptedStarts :
          LET delivered == AcceptedStarts[k].attrs
              written == EmittedStarts[k].attrs
          IN  /\ \A a \in DOMAIN written :
                    \E d \in DOMAIN delivered : delivered[d].name = written[a].name
              /\ \A a, b \in DOMAIN written :
                    a < b => PlaceOf(delivered, written[a].name)
                                < PlaceOf(delivered, written[b].name)



\* the first position from c on, 0-based, whose character is in C, and the
\* length of s when there is none
FirstIn(s, c, C) ==
    IF c >= Len(s) THEN Len(s)
    ELSE CHOOSE p \in c..Len(s) :
            /\ p = Len(s) \/ s[p + 1] \in C
            /\ \A q \in c..(p - 1) : s[q + 1] \notin C

\* the first position from c on whose character is not in C
FirstOutside(s, c, C) ==
    IF c >= Len(s) THEN Len(s)
    ELSE CHOOSE p \in c..Len(s) :
            /\ p = Len(s) \/ s[p + 1] \notin C
            /\ \A q \in c..(p - 1) : s[q + 1] \in C

\* what one round of the lexer that starts at position c of the tag
\* interior s is said to do: which case it is, where the next round starts,
\* and the name and value it stores
SaidOfRound(s, c) ==
    LET w == FirstOutside(s, c, Whitespace)
        n == FirstOutside(s, w, NameChars)
        e == FirstOutside(s, n, Whitespace)
        v == FirstOutside(s, e + 1, Whitespace)
        name == SubSeq(s, w + 1, n)
        none == [case |-> "end", next |-> Len(s), name |-> <<>>, has |-> FALSE,
                 value |-> <<>>]
    IN  IF w = Len(s) THEN none
        ELSE IF n = w THEN [none EXCEPT !.case = "skipped", !.next = w + 1]
        ELSE IF e = Len(s) \/ s[e + 1] # "="
             THEN [none EXCEPT !.case = "bare", !.next = e, !.name = name]
        ELSE IF v = Len(s)
             THEN [none EXCEPT !.case = "empty", !.name = name, !.has = TRUE]
        ELSE IF s[v + 1] \in {"\"", "'"}
             THEN LET q == FirstIn(s, v + 1, {s[v + 1]})
                  IN  [case |-> IF q = Len(s) THEN "unterminated" ELSE "quoted",
                       next |-> IF q = Len(s) THEN q ELSE q + 1,
                       name |-> name, has |-> TRUE,
                       value |-> decode(SubSeq(s, v + 2, q))]
        ELSE LET q == FirstIn(s, v, Whitespace)
             IN  [case |-> "unquoted", next |-> q, name |-> name, has |-> TRUE,
                  value |-> decode(SubSeq(s, v + 1, q))]

\* the tag interior after the tag name of the start tag at the head of the
\* remaining input
InteriorAhead ==
    LET close == Min({i \in DOMAIN remaining : remaining[i] = ">"})
        whole == trim(SubSeq(remaining, 2, close - 1))
        inner == IF whole # <<>> /\ whole[Len(whole)] = "/"
                 THEN trim(SubSeq(whole, 1, Len(whole) - 1)) ELSE whole
    IN  SubSeq(inner, FirstOutside(inner, 0, NameChars) + 1, Len(inner))

C39_CustomSchemesUseCore ==
    (pc # "insane" /\ options.allowedSchemes # defaults.allowedSchemes) =>
        /\ ~canUseNative(options)
        /\ native \in {"absent", "present"}

=============================================================================
